---- MODULE Spec2Model ----
(***************************************************************************)
(* A model of the Read v2 terminology engine of eadapt-needs-analysis:     *)
(* ReadCode (lib/src/read2.rs), Thesaurus (read2/thesaurus.rs), the term   *)
(* filter language, TermSet and TermCodeSet (read2/termset.rs,             *)
(* read2/termset/termcodeset.rs), the lymphoma subtype classification      *)
(* (lib/src/subtypes.rs), Patients::calc_lymphoma_data (lib/src/lib.rs)    *)
(* and CodeSet / CodeSetMatcher (read2/codeset.rs).                        *)
(*                                                                         *)
(* Strings are sequences of one-character strings.  Each component has its *)
(* own specification; the variables of the other components stay Null.     *)
(***************************************************************************)
EXTENDS Integers, Sequences, FiniteSets, TLC

VARIABLES
    code_a, code_b, ord_out,          \* SpecOrd: two ReadCodes and the comparison results
    th, parent, desc_out,             \* SpecTh: a Thesaurus, a parent code, iter_descendants' output
    dsl_term, dsl_text, dsl_out,      \* SpecDsl: a term string, a text, FilterSet::new / is_match results
    ts, ret, snap,                    \* Spec: a TermSet, the last call's result, the add/remove observer
    match_out,                        \* SpecMatch: the result of one is_match_multi call on ts
    tcs, tcs_ret,                     \* SpecTCS: a TermCodeSet and the last call's result
    events, code_subtype_map,         \* SpecSub: the Events, the CodeSubtypeMap
    classified,                       \*   and classify's result
    sub_a, sub_b, sub_out,            \* SpecRel: two subtypes and is_subtype_of's results
    mult_in, mult_out,                \* SpecMult: a subtype map and find_multiple's result
    pat_events, pat_map, patients,    \* SpecPat: Events, a CodeSubtypeMap, the Patients
    cs_set, cs_events, cs_out,        \* SpecCs: a CodeSet, Events, the last operation's result
    parse_in, parse_out,              \* SpecParse: a byte string and from_bytes' result
    arcs, code_sets,                  \* SpecClone: the Arc allocations, the live CodeSet values,
    cl_src, cl_tcs, cl_last,          \*   a TermSet and Thesaurus, the TermCodeSet built from them, the last call
    tm, now,                          \* SpecTime: a TermSet with its timestamps, the clock
    idx_patients, idx_events, idx_out, \* SpecIdx: a Patients, an Events, the last call
    ltc_events, ltc_date, ltc_out,    \* SpecLtc: a patient's events, a date, the tests' results
    rep_in, rep_out,                  \* SpecRep: the inputs of Conditions::report and its result
    rank_in, rank_out                  \* SpecRank: the patients' rates and the percentiles computed from them

ordVars == <<code_a, code_b, ord_out>>
thVars  == <<th, parent, desc_out>>
dslVars == <<dsl_term, dsl_text, dsl_out>>
tsVars  == <<ts, ret, snap, match_out>>
tcsVars == <<tcs, tcs_ret>>
subVars == <<events, code_subtype_map, classified>>
relVars == <<sub_a, sub_b, sub_out>>
multVars == <<mult_in, mult_out>>
patVars == <<pat_events, pat_map, patients>>
csVars  == <<cs_set, cs_events, cs_out>>
parseVars == <<parse_in, parse_out>>
cloneVars == <<arcs, code_sets, cl_src, cl_tcs, cl_last>>
timeVars == <<tm, now>>
idxVars == <<idx_patients, idx_events, idx_out>>
ltcVars == <<ltc_events, ltc_date, ltc_out>>
repVars == <<rep_in, rep_out>>
rankVars == <<rank_in, rank_out>>
auxVars == <<parseVars, cloneVars, timeVars, idxVars, ltcVars, repVars, rankVars>>
coreVars == <<ordVars, thVars, dslVars, tsVars, tcsVars, subVars>>
extVars == <<relVars, multVars, patVars, csVars, auxVars>>
vars == <<coreVars, extVars>>

Null == "null"
\* A result variable before its operation has run.
NotRun == [done |-> FALSE]

IdleOrd == code_a = Null /\ code_b = Null /\ ord_out = Null
IdleTh  == th = Null /\ parent = Null /\ desc_out = Null
IdleDsl == dsl_term = Null /\ dsl_text = Null /\ dsl_out = Null
IdleTs  == ts = Null /\ ret = Null /\ snap = Null /\ match_out = Null
IdleTcs == tcs = Null /\ tcs_ret = Null
IdleSub == events = Null /\ code_subtype_map = Null /\ classified = Null
IdleRel == sub_a = Null /\ sub_b = Null /\ sub_out = Null
IdleMult == mult_in = Null /\ mult_out = Null
IdlePat == pat_events = Null /\ pat_map = Null /\ patients = Null
IdleCs  == cs_set = Null /\ cs_events = Null /\ cs_out = Null
IdleParse == parse_in = Null /\ parse_out = Null
IdleClone == arcs = Null /\ code_sets = Null /\ cl_src = Null /\ cl_tcs = Null /\ cl_last = Null
IdleTime == tm = Null /\ now = Null
IdleIdx == idx_patients = Null /\ idx_events = Null /\ idx_out = Null
IdleLtc == ltc_events = Null /\ ltc_date = Null /\ ltc_out = Null
IdleRep == rep_in = Null /\ rep_out = Null
IdleRank == rank_in = Null /\ rank_out = Null
IdleAux == IdleParse /\ IdleClone /\ IdleTime /\ IdleIdx /\ IdleLtc /\ IdleRep /\ IdleRank
IdleCore == IdleOrd /\ IdleTh /\ IdleDsl /\ IdleTs /\ IdleTcs /\ IdleSub
IdleExt == IdleRel /\ IdleMult /\ IdlePat /\ IdleCs /\ IdleAux

(***************************************************************************)
(* Characters                                                              *)
(***************************************************************************)
Digits == <<"0", "1", "2", "3", "4", "5", "6", "7", "8", "9">>
Uppers == <<"A", "B", "C", "D", "E", "F", "G", "H", "I", "J", "K", "L", "M",
            "N", "O", "P", "Q", "R", "S", "T", "U", "V", "W", "X", "Y", "Z">>
Lowers == <<"a", "b", "c", "d", "e", "f", "g", "h", "i", "j", "k", "l", "m",
            "n", "o", "p", "q", "r", "s", "t", "u", "v", "w", "x", "y", "z">>

Range(s) == {s[i] : i \in DOMAIN s}
IndexOf(s, c) == CHOOSE i \in DOMAIN s : s[i] = c

is_ascii_digit(c) == c \in Range(Digits)
is_ascii_alphanumeric(c) == c \in Range(Digits) \cup Range(Uppers) \cup Range(Lowers)

\* The byte value of an ASCII character ('.' and the alphanumerics are all
\* that a ReadCode holds).
Byte(c) ==
    IF c = "." THEN 46
    ELSE IF c \in Range(Digits) THEN 47 + IndexOf(Digits, c)
    ELSE IF c \in Range(Uppers) THEN 64 + IndexOf(Uppers, c)
    ELSE IF c \in Range(Lowers) THEN 96 + IndexOf(Lowers, c)
    ELSE 0

(***************************************************************************)
(* ReadCode                                                                *)
(***************************************************************************)
CodeLen == 5
SynonymLen == 7

is_read_ch(b) == is_ascii_alphanumeric(b) \/ b = "."

\* from_bytes without the check of the two synonym digits.
from_bytes_any_suffix(v) ==
    IF Len(v) = CodeLen \/ Len(v) = SynonymLen
    THEN IF \A i \in 1..CodeLen : is_read_ch(v[i])
         THEN [ok |-> TRUE, code |-> SubSeq(v, 1, CodeLen)]
         ELSE [ok |-> FALSE]
    ELSE [ok |-> FALSE]

\* ReadCode::from_bytes: Ok(code) or Err.
from_bytes(v) ==
    IF Len(v) = CodeLen
    THEN IF \A i \in 1..CodeLen : is_read_ch(v[i])
         THEN [ok |-> TRUE, code |-> SubSeq(v, 1, CodeLen)]
         ELSE [ok |-> FALSE]
    ELSE IF Len(v) = SynonymLen
    THEN IF /\ \A i \in 1..CodeLen : is_read_ch(v[i])
            /\ \A i \in (CodeLen + 1)..SynonymLen : is_ascii_digit(v[i])
         THEN [ok |-> TRUE, code |-> SubSeq(v, 1, CodeLen)]
         ELSE [ok |-> FALSE]
    ELSE [ok |-> FALSE]

has_children(self) == self[CodeLen] = "."

is_child_of(self, p) ==
    IF self = p THEN FALSE
    ELSE \A i \in 1..CodeLen : ~(self[i] # p[i] /\ p[i] # ".")

is_parent_of(self, child) == is_child_of(child, self)

\* char::from(o1).cmp(&char::from(o2))
char_cmp(o1, o2) ==
    IF Byte(o1) < Byte(o2) THEN "Less"
    ELSE IF Byte(o1) > Byte(o2) THEN "Greater"
    ELSE "Equal"

\* The arm of the match in Ord::cmp taken at one index: an Ordering to
\* return, or "continue".
cmp_at_dot_last(c1, c2) ==
    IF c1 = "." /\ c2 = "." THEN "continue"
    ELSE IF c1 = "." THEN "Greater"
    ELSE IF c2 = "." THEN "Less"
    ELSE IF c1 # c2 THEN char_cmp(c1, c2)
    ELSE "continue"

cmp_at(c1, c2) ==
    IF c1 = "." /\ c2 = "." THEN "continue"
    ELSE IF c1 = "." THEN "Less"
    ELSE IF c2 = "." THEN "Greater"
    ELSE IF c1 # c2 THEN char_cmp(c1, c2)
    ELSE "continue"

RECURSIVE cmp_from(_, _, _)
cmp_from(self, other, idx) ==
    IF idx > CodeLen THEN "Equal"
    ELSE LET r == cmp_at(self[idx], other[idx])
         IN  IF r = "continue" THEN cmp_from(self, other, idx + 1) ELSE r

\* impl Ord for ReadCode
cmp(self, other) == cmp_from(self, other, 1)

lt(a, b) == cmp(a, b) = "Less"

\* The characters the model's codes are made of, and the codes the parser
\* accepts over them.
CodeChars == {".", "1", "A"}
CodeInputs == [1..CodeLen -> CodeChars]
ParsedCodes == {from_bytes(v).code : v \in {w \in CodeInputs : from_bytes(w).ok}}

InitOrd ==
    /\ code_a \in ParsedCodes
    /\ code_b \in ParsedCodes
    /\ ord_out = NotRun

\* Compare the two codes both ways and test the hierarchy both ways.
Compare ==
    /\ ~ord_out.done
    /\ ord_out' = [done |-> TRUE, ab |-> cmp(code_a, code_b), ba |-> cmp(code_b, code_a),
                   child |-> is_child_of(code_b, code_a),
                   parent |-> is_parent_of(code_a, code_b)]
    /\ UNCHANGED <<code_a, code_b>>
    /\ UNCHANGED <<thVars, dslVars, tsVars, tcsVars, subVars, extVars>>

NextOrd == Compare

InitSpecOrd == InitOrd /\ IdleTh /\ IdleDsl /\ IdleTs /\ IdleTcs /\ IdleSub /\ IdleExt

SpecOrd == InitSpecOrd /\ [][NextOrd]_vars

Flip(o) == IF o = "Less" THEN "Greater" ELSE IF o = "Greater" THEN "Less" ELSE o

\* C5: the ReadCode order is a total order consistent with equality: cmp is
\* Equal exactly for equal codes, cmp(b,a) is the reverse of cmp(a,b), < is
\* transitive, and at the first differing position '.' sorts first.
C5_TotalOrder ==
    ord_out.done =>
        /\ ord_out.ab \in {"Less", "Equal", "Greater"}
        /\ (ord_out.ab = "Equal") <=> (code_a = code_b)
        /\ ord_out.ba = Flip(ord_out.ab)
        /\ \A c \in ParsedCodes :
              (ord_out.ab = "Less" /\ lt(code_b, c)) => lt(code_a, c)
        /\ \A i \in 1..CodeLen :
              (/\ \A j \in 1..(i - 1) : code_a[j] = code_b[j]
               /\ code_a[i] = "." /\ code_b[i] # ".") => ord_out.ab = "Less"

C5_Witness ==
    /\ ord_out.done
    /\ code_a = <<"A", ".", ".", ".", ".">>
    /\ code_b = <<"A", "1", ".", ".", ".">>
    /\ ord_out.ab = "Less"

\* C4: a parent sorts before its child and every code between them is a
\* descendant of the parent.
C4_Contiguous ==
    (ord_out.done /\ ord_out.parent) =>
        /\ ord_out.ab = "Less"
        /\ \A x \in ParsedCodes :
              (lt(code_a, x) /\ lt(x, code_b)) => is_child_of(x, code_a)

(***************************************************************************)
(* Thesaurus: an ordered map (BTreeMap) from ReadCode to a set of          *)
(* descriptions, modelled as a function; its iteration order is the order  *)
(* of the keys under cmp.                                                  *)
(***************************************************************************)
MinCode(S) == CHOOSE k \in S : \A o \in S : cmp(k, o) # "Greater"

\* The keys of a BTreeSet / BTreeMap in iteration order.
RECURSIVE SortedKeys(_)
SortedKeys(S) ==
    IF S = {} THEN <<>>
    ELSE LET k == MinCode(S) IN <<k>> \o SortedKeys(S \ {k})

\* BTreeMap::range(p..): the keys not less than p, in order.
RangeFrom(m, p) ==
    LET AtLeast(k) == cmp(k, p) # "Less"
    IN  SelectSeq(SortedKeys(DOMAIN m), AtLeast)

\* Iterator::skip(1)
Skip1(s) == IF s = <<>> THEN <<>> ELSE Tail(s)

\* Iterator::take_while(|code| parent.is_parent_of(code))
RECURSIVE TakeWhileChild(_, _)
TakeWhileChild(s, p) ==
    IF s = <<>> THEN <<>>
    ELSE IF is_parent_of(p, Head(s)) THEN <<Head(s)>> \o TakeWhileChild(Tail(s), p)
    ELSE <<>>

\* Thesaurus::iter_descendants: the (code, descriptions) pairs it yields.
iter_descendants(m, p) ==
    LET codes == TakeWhileChild(Skip1(RangeFrom(m, p)), p)
    IN  [i \in DOMAIN codes |-> <<codes[i], m[codes[i]]>>]

\* Thesaurus::get
th_get(m, code) == IF code \in DOMAIN m THEN [some |-> TRUE, v |-> m[code]] ELSE [some |-> FALSE]

\* The codes the model's thesauri are built from; every thesaurus of SpecTh
\* gives each of its codes the same single description.
ThCodes == {<<"A", ".", ".", ".", ".">>, <<"A", "1", ".", ".", ".">>,
            <<"A", "1", "1", ".", ".">>, <<"A", "1", "A", ".", ".">>,
            <<"A", "A", ".", ".", ".">>, <<"1", ".", ".", ".", ".">>,
            <<"1", "A", ".", ".", ".">>}
ThDesc == {<<"a">>}

InitTh ==
    /\ \E S \in SUBSET ThCodes : th = [c \in S |-> ThDesc]
    /\ parent = Null
    /\ desc_out = NotRun

\* One call of iter_descendants, collected.
IterDescendants ==
    /\ \E p \in ThCodes :
          /\ parent' = p
          /\ desc_out' = [done |-> TRUE, items |-> iter_descendants(th, p)]
    /\ UNCHANGED th
    /\ UNCHANGED <<ordVars, dslVars, tsVars, tcsVars, subVars, extVars>>

NextTh == IterDescendants

InitSpecTh == InitTh /\ IdleOrd /\ IdleDsl /\ IdleTs /\ IdleTcs /\ IdleSub /\ IdleExt

SpecTh == InitSpecTh /\ [][NextTh]_vars

\* C6: iter_descendants(parent) yields exactly the entries of the thesaurus
\* whose code is a descendant of parent, each once, whether or not parent
\* is a key of the thesaurus.
C6_ExactDescendants ==
    desc_out.done =>
        LET out == desc_out.items
        IN  /\ {out[i] : i \in DOMAIN out}
                 = {<<c, th[c]>> : c \in {k \in DOMAIN th : is_child_of(k, parent)}}
            /\ \A i, j \in DOMAIN out : out[i] = out[j] => i = j

(***************************************************************************)
(* The term filter language: lexer (TermFilterTok), parser, code           *)
(* generation (Term::to_regex, TermFilter::codegen) and matching (Filter,  *)
(* FilterSet).  A compiled regex is a sequence of atoms: a word boundary   *)
(* \b, \S*, or one escaped literal character.                              *)
(***************************************************************************)
LexSpace == {" ", "\t", "\n", "\f"}

\* Index of the first occurrence of c after position pos, or 0.
NextIdx(input, pos, c) ==
    LET hits == {j \in (pos + 1)..Len(input) : input[j] = c}
    IN  IF hits = {} THEN 0 ELSE CHOOSE j \in hits : \A o \in hits : j <= o

\* Length of the match of the quoted pattern q[^q]+q at pos, or 0.
QuotedLen(input, pos, q) ==
    IF input[pos] # q THEN 0
    ELSE LET j == NextIdx(input, pos, q)
         IN  IF j >= pos + 2 THEN j - pos + 1 ELSE 0

\* Length of the longest run of characters of class Cls(_) starting at pos.
RunLen(input, pos, Cls(_)) ==
    LET stops == {j \in pos..Len(input) : ~Cls(input[j])}
    IN  IF stops = {} THEN Len(input) - pos + 1
        ELSE (CHOOSE j \in stops : \A o \in stops : j <= o) - pos

IsBareCh(c) == c \notin (LexSpace \cup {"*", "\""})
IsLexSpace(c) == c \in LexSpace

TokLiteral(s) == [k |-> "Literal", s |-> s]
TokWhitespace == [k |-> "Whitespace", s |-> <<>>]
TokAsterisk == [k |-> "Asterisk", s |-> <<>>]
TokError == [k |-> "Error", s |-> <<>>]

\* The token the lexer produces at pos and its length: the longest match,
\* a quoted pattern winning a tie with the bare one.
TokenAt(input, pos) ==
    LET dq == QuotedLen(input, pos, "\"")
        sq == QuotedLen(input, pos, "'")
        bare == RunLen(input, pos, IsBareCh)
        ws == RunLen(input, pos, IsLexSpace)
    IN  IF dq > 0 THEN <<TokLiteral(SubSeq(input, pos + 1, pos + dq - 2)), dq>>
        ELSE IF sq > 0 /\ sq >= bare
             THEN <<TokLiteral(SubSeq(input, pos + 1, pos + sq - 2)), sq>>
        ELSE IF bare > 0 THEN <<TokLiteral(SubSeq(input, pos, pos + bare - 1)), bare>>
        ELSE IF ws > 0 THEN <<TokWhitespace, ws>>
        ELSE IF input[pos] = "*" THEN <<TokAsterisk, 1>>
        ELSE <<TokError, 1>>

RECURSIVE LexFrom(_, _)
LexFrom(input, pos) ==
    IF pos > Len(input) THEN <<>>
    ELSE LET t == TokenAt(input, pos) IN <<t[1]>> \o LexFrom(input, pos + t[2])

\* TermFilterTok::lalrpop_lex: the token stream of an input.
lalrpop_lex(input) == LexFrom(input, 1)

\* The grammar: a filter is one or more terms separated by whitespace, a
\* term one or more literals and asterisks; a lexer error fails the parse.
RECURSIVE ParseFrom(_, _, _, _)
ParseFrom(toks, i, terms, cur) ==
    IF i > Len(toks)
    THEN IF cur = <<>> THEN [ok |-> FALSE] ELSE [ok |-> TRUE, parts |-> Append(terms, cur)]
    ELSE IF toks[i].k = "Error" THEN [ok |-> FALSE]
    ELSE IF toks[i].k = "Whitespace"
         THEN IF cur = <<>> THEN [ok |-> FALSE]
              ELSE ParseFrom(toks, i + 1, Append(terms, cur), <<>>)
    ELSE ParseFrom(toks, i + 1, terms, Append(cur, toks[i]))

\* TermFilter::parse: Ok(the list of Terms, each a list of TermParts) or Err.
TermFilter_parse(input) == ParseFrom(lalrpop_lex(input), 1, <<>>, <<>>)

AtomB == [k |-> "b", c |-> ""]
AtomNonSpaceStar == [k |-> "S*", c |-> ""]
AtomCh(c) == [k |-> "ch", c |-> c]

\* regex::escape(part): every character of the literal stands for itself.
escape(part) == [i \in DOMAIN part |-> AtomCh(part[i])]

\* The loop of Term::to_regex from part i on.
RECURSIVE to_regex_from(_, _)
to_regex_from(parts, i) ==
    IF i > Len(parts) THEN <<>>
    ELSE LET more == i < Len(parts)
             here == IF parts[i].k = "Asterisk"
                     THEN IF more THEN <<AtomNonSpaceStar>> ELSE <<>>
                     ELSE escape(parts[i].s) \o (IF more THEN <<>> ELSE <<AtomB>>)
         IN  here \o to_regex_from(parts, i + 1)

\* A variant that always ends the pattern with a word boundary.
to_regex_end_boundary(parts) ==
    LET body == IF parts # <<>> /\ parts[1].k = "Asterisk"
                THEN to_regex_from(parts, 2)
                ELSE <<AtomB>> \o to_regex_from(parts, 1)
    IN  IF body # <<>> /\ body[Len(body)] = AtomB THEN body ELSE Append(body, AtomB)

\* Term::to_regex
to_regex(parts) ==
    IF parts # <<>> /\ parts[1].k = "Asterisk"
    THEN to_regex_from(parts, 2)
    ELSE <<AtomB>> \o to_regex_from(parts, 1)

\* TermFilter::codegen: the RegexSet of a filter, one regex per term.
codegen(tf) == [i \in DOMAIN tf |-> to_regex(tf[i])]

\* Case folding of the case-insensitive RegexSet.
Fold(c) == IF c \in Range(Uppers) THEN Lowers[IndexOf(Uppers, c)] ELSE c

IsWordCh(c) == is_ascii_alphanumeric(c) \/ c = "_"
IsSpaceCh(c) == c \in {" ", "\t", "\n", "\f", "\r"}

\* \b at pos: exactly one of the characters before and at pos is a word character.
IsBoundary(text, pos) ==
    LET before == pos > 1 /\ IsWordCh(text[pos - 1])
        at == pos <= Len(text) /\ IsWordCh(text[pos])
    IN  before # at

\* Does the regex, from atom i on, match the text starting at pos?
RECURSIVE MatchFrom(_, _, _, _)
MatchFrom(re, i, text, pos) ==
    IF i > Len(re) THEN TRUE
    ELSE IF re[i].k = "b" THEN IsBoundary(text, pos) /\ MatchFrom(re, i + 1, text, pos)
    ELSE IF re[i].k = "ch"
         THEN /\ pos <= Len(text)
              /\ Fold(text[pos]) = Fold(re[i].c)
              /\ MatchFrom(re, i + 1, text, pos + 1)
    ELSE \E n \in 0..(Len(text) - pos + 1) :
            /\ \A j \in pos..(pos + n - 1) : ~IsSpaceCh(text[j])
            /\ MatchFrom(re, i + 1, text, pos + n)

\* An unanchored search of one regex in the text.
regex_is_match(re, text) == \E pos \in 1..(Len(text) + 1) : MatchFrom(re, 1, text, pos)

\* A variant in which one matching regex is enough.
Filter_is_match_any(inner, input) ==
    Cardinality({i \in DOMAIN inner : regex_is_match(inner[i], input)}) >= 1

\* Filter::is_match: all regexes in the set must match.
Filter_is_match(inner, input) ==
    Cardinality({i \in DOMAIN inner : regex_is_match(inner[i], input)}) = Len(inner)

\* FilterSet::new: Ok(one Filter per term string) or Err.
FilterSet_new(terms) ==
    IF \A i \in DOMAIN terms : TermFilter_parse(terms[i]).ok
    THEN [ok |-> TRUE, inner |-> [i \in DOMAIN terms |-> codegen(TermFilter_parse(terms[i]).parts)]]
    ELSE [ok |-> FALSE]

\* FilterSet::is_match
FilterSet_is_match(inner, input) == \E i \in DOMAIN inner : Filter_is_match(inner[i], input)

(***************************************************************************)
(* SpecDsl: one term string is compiled with FilterSet::new and the        *)
(* resulting FilterSet is matched against one text.                        *)
(***************************************************************************)
MaxPieces == 3

\* The concatenations of at most n pieces of P.
RECURSIVE Strings(_, _)
Strings(P, n) ==
    IF n = 0 THEN {<<>>}
    ELSE LET prev == Strings(P, n - 1) IN prev \cup {x \o q : x \in prev, q \in P}

T_lymphoma ==
    <<"l", "y", "m", "p", "h", "o", "m", "a">>
T_lymphoma_star ==
    <<"l", "y", "m", "p", "h", "o", "m", "a", "*">>
T_star_oma ==
    <<"*", "o", "m", "a">>
T_lym_star_oma ==
    <<"l", "y", "m", "*", "o", "m", "a">>
T_secondary_and_unspecified ==
    <<"s", "e", "c", "o", "n", "d", "a", "r", "y", " ", "a", "n", "d", " ", "u", "n",
      "s", "p", "e", "c", "i", "f", "i", "e", "d">>
T_quoted ==
    <<"\"", "b", " ", "c", "e", "l", "l", "\"">>
T_single_quoted ==
    <<"'", "b", " ", "c", "e", "l", "l", "'">>
T_open_quote ==
    <<"\"", "b">>
T_nos ==
    <<"(", "n", "o", "s", ")", " ", "b", "/">>
X_lymphoma_slash ==
    <<"l", "y", "m", "p", "h", "o", "m", "a", "/">>
X_LYMPHOMA ==
    <<"L", "Y", "M", "P", "H", "O", "M", "A">>
X_lymphomas ==
    <<"l", "y", "m", "p", "h", "o", "m", "a", "s">>
X_secondary_and_unspecified ==
    <<"s", "e", "c", "o", "n", "d", "a", "r", "y", " ", "a", "n", "d", " ", "u", "n",
      "s", "p", "e", "c", "i", "f", "i", "e", "d">>
X_unspecified_and_secondary_tumour ==
    <<"u", "n", "s", "p", "e", "c", "i", "f", "i", "e", "d", " ", "a", "n", "d", " ",
      "s", "e", "c", "o", "n", "d", "a", "r", "y", " ", "t", "u", "m", "o", "u", "r">>
X_secondary_tumour ==
    <<"s", "e", "c", "o", "n", "d", "a", "r", "y", " ", "t", "u", "m", "o", "u", "r">>
X_b_cell ==
    <<"l", "a", "r", "g", "e", " ", "B", " ", "c", "e", "l", "l", " ", "l", "y", "m",
      "p", "h", "o", "m", "a">>
X_nos ==
    <<"a", "b", "(", "n", "o", "s", ")", " ", "a", "b", "/", "b">>

TermPieces == {<<"a", "b">>, <<"b">>, <<" ">>, <<"*">>}
TextPieces == {<<"a", "b">>, <<"B">>, <<" ">>, <<"/">>}
DslTerms == Strings(TermPieces, MaxPieces) \cup {T_lymphoma, T_lymphoma_star, T_star_oma, T_lym_star_oma, T_secondary_and_unspecified,
             T_quoted, T_single_quoted, T_open_quote, T_nos}
DslTexts == Strings(TextPieces, MaxPieces) \cup {X_lymphoma_slash, X_LYMPHOMA, X_lymphomas, X_secondary_and_unspecified,
             X_unspecified_and_secondary_tumour, X_secondary_tumour, X_b_cell, X_nos, T_nos}

InitDsl ==
    /\ dsl_term \in DslTerms
    /\ dsl_text \in DslTexts
    /\ dsl_out = NotRun

\* FilterSet::new(iter::once(term)) and, when it compiles, is_match(text).
CompileAndMatch ==
    /\ ~dsl_out.done
    /\ LET fs == FilterSet_new(<<dsl_term>>)
       IN  dsl_out' = IF fs.ok
                      THEN [done |-> TRUE, ok |-> TRUE, inner |-> fs.inner,
                            matched |-> FilterSet_is_match(fs.inner, dsl_text)]
                      ELSE [done |-> TRUE, ok |-> FALSE, inner |-> <<>>, matched |-> FALSE]
    /\ UNCHANGED <<dsl_term, dsl_text>>
    /\ UNCHANGED <<ordVars, thVars, tsVars, tcsVars, subVars, extVars>>

NextDsl == CompileAndMatch

InitSpecDsl == InitDsl /\ IdleOrd /\ IdleTh /\ IdleTs /\ IdleTcs /\ IdleSub /\ IdleExt

SpecDsl == InitSpecDsl /\ [][NextDsl]_vars

\* The words of a string: its maximal runs of non-whitespace characters.
WordSpans(t) ==
    {<<i, j>> \in (1..Len(t)) \X (1..Len(t)) :
        /\ i <= j
        /\ \A n \in i..j : ~IsLexSpace(t[n])
        /\ (i = 1 \/ IsLexSpace(t[i - 1]))
        /\ (j = Len(t) \/ IsLexSpace(t[j + 1]))}
WordsOf(t) == {SubSeq(t, sp[1], sp[2]) : sp \in WordSpans(t)}

\* w occurs in text, ignoring case, with a word boundary on each side.
OccursWhole(w, text) ==
    \E i \in 1..(Len(text) - Len(w) + 1) :
        /\ \A j \in 1..Len(w) : Fold(text[i + j - 1]) = Fold(w[j])
        /\ IsBoundary(text, i)
        /\ IsBoundary(text, i + Len(w))

IsPlainWords(t) == \A i \in DOMAIN t : t[i] \notin {"*", "\"", "'"}

C24_PlainTermMatchesItself ==
    (/\ dsl_out.done /\ dsl_out.ok
     /\ IsPlainWords(dsl_term) /\ WordsOf(dsl_term) # {}
     /\ dsl_text = dsl_term) => dsl_out.matched

\* Does the segment seg, from j on, match the term t from i on, where `*`
\* stands for zero or more non-whitespace characters and every other
\* character for itself, ignoring case?
RECURSIVE Glob(_, _, _, _)
Glob(t, i, seg, j) ==
    IF i > Len(t) THEN j > Len(seg)
    ELSE IF t[i] = "*"
         THEN \E n \in 0..(Len(seg) - j + 1) :
                 /\ \A m \in j..(j + n - 1) : ~IsSpaceCh(seg[m])
                 /\ Glob(t, i + 1, seg, j + n)
    ELSE /\ j <= Len(seg)
         /\ Fold(seg[j]) = Fold(t[i])
         /\ Glob(t, i + 1, seg, j + 1)

IsBareTerm(t) == t # <<>> /\ \A i \in DOMAIN t : t[i] \notin (LexSpace \cup {"\"", "'"})

MaxTerms == 2

\* TermSet::from_parts (called by TermSet::new and by deserialization).
from_parts(include_terms, exclude_terms) ==
    LET inc == FilterSet_new(include_terms)
        exc == FilterSet_new(exclude_terms)
    IN  IF inc.ok /\ exc.ok
        THEN [ok |-> TRUE,
              ts |-> [include_terms |-> include_terms, exclude_terms |-> exclude_terms,
                      includes |-> inc.inner, excludes |-> exc.inner]]
        ELSE [ok |-> FALSE]

\* Vec::retain(|t| *t != term)
Retain(terms, term) == LET Keep(t) == t # term IN SelectSeq(terms, Keep)

\* TermSet::add_include: the result and the TermSet it leaves.
add_include(self, term) ==
    LET pushed == [self EXCEPT !.include_terms = Append(@, term)]
        fs == FilterSet_new(pushed.include_terms)
    IN  IF fs.ok THEN [ret |-> "ok", ts |-> [pushed EXCEPT !.includes = fs.inner]]
        ELSE [ret |-> "err", ts |-> pushed]

\* TermSet::remove_include: recompiles with unwrap, so a failure panics.
remove_include(self, term) ==
    LET kept == [self EXCEPT !.include_terms = Retain(@, term)]
        changed == kept.include_terms # self.include_terms
        fs == FilterSet_new(kept.include_terms)
    IN  IF ~changed THEN [ret |-> "ok", ts |-> kept]
        ELSE IF fs.ok THEN [ret |-> "ok", ts |-> [kept EXCEPT !.includes = fs.inner]]
        ELSE [ret |-> "panic", ts |-> kept]

\* TermSet::add_exclude
add_exclude(self, term) ==
    LET pushed == [self EXCEPT !.exclude_terms = Append(@, term)]
        fs == FilterSet_new(pushed.exclude_terms)
    IN  IF fs.ok THEN [ret |-> "ok", ts |-> [pushed EXCEPT !.excludes = fs.inner]]
        ELSE [ret |-> "err", ts |-> pushed]

\* TermSet::remove_exclude
remove_exclude(self, term) ==
    LET kept == [self EXCEPT !.exclude_terms = Retain(@, term)]
        changed == kept.exclude_terms # self.exclude_terms
        fs == FilterSet_new(kept.exclude_terms)
    IN  IF ~changed THEN [ret |-> "ok", ts |-> kept]
        ELSE IF fs.ok THEN [ret |-> "ok", ts |-> [kept EXCEPT !.excludes = fs.inner]]
        ELSE [ret |-> "err", ts |-> kept]

\* a and b are equal ignoring case.
EqIgnoreCase(a, b) == Len(a) = Len(b) /\ \A i \in DOMAIN a : Fold(a[i]) = Fold(b[i])

\* A variant of is_match in which a description equal to an include term is
\* never excluded.
is_match_exact_kept(self, description) ==
    \/ \E i \in DOMAIN self.include_terms : EqIgnoreCase(description, self.include_terms[i])
    \/ FilterSet_is_match(self.includes, description)
          /\ ~FilterSet_is_match(self.excludes, description)

\* TermSet::is_match
is_match(self, description) ==
    FilterSet_is_match(self.includes, description)
        /\ ~FilterSet_is_match(self.excludes, description)

\* The descriptions of a set in iteration order (the result below does not
\* depend on the order).
RECURSIVE SetToSeq(_)
SetToSeq(S) == IF S = {} THEN <<>> ELSE LET x == CHOOSE x \in S : TRUE IN <<x>> \o SetToSeq(S \ {x})

\* The loop of is_match_multi: the flags after the descriptions from i on.
RECURSIVE multi_loop(_, _, _, _, _)
multi_loop(self, descs, i, include, exclude) ==
    IF i > Len(descs) THEN <<include, exclude>>
    ELSE multi_loop(self, descs, i + 1,
                    include \/ FilterSet_is_match(self.includes, descs[i]),
                    exclude \/ FilterSet_is_match(self.excludes, descs[i]))

\* A variant that tests the excludes only on descriptions that match an include.
is_match_multi_any(self, description) ==
    \E d \in description : is_match(self, d)

\* TermSet::is_match_multi
is_match_multi(self, description) ==
    LET flags == multi_loop(self, SetToSeq(description), 1, FALSE, FALSE)
    IN  flags[1] /\ ~flags[2]

\* TermSet::is_match_inc_or_ex
is_match_inc_or_ex(self, desc) ==
    FilterSet_is_match(self.includes, desc) \/ FilterSet_is_match(self.excludes, desc)

\* The term strings and descriptions of the model.  BadTerm is a lone
\* double quote, which the lexer rejects.
P_ab == <<"a", "b">>
P_b_star == <<"b", "*">>
P_ab_b == <<"a", "b", " ", "b">>
BadTerm == <<"\"">>
GoodTerms == {P_ab, P_b_star, P_ab_b}
TermPool == GoodTerms \cup {BadTerm}
Descs == {<<"a", "b">>, <<"b">>, <<"a", "b", " ", "b", "b">>, <<"B", " ", "a", "b">>, <<"a">>}

\* The lists of at most n elements of S.
Lists(S, n) == UNION {[1..k -> S] : k \in 0..n}

\* The TermSets TermSet::new can return for term lists of at most MaxTerms terms.
NewTermSets ==
    {from_parts(inc, exc).ts :
        <<inc, exc>> \in {q \in Lists(TermPool, MaxTerms) \X Lists(TermPool, MaxTerms) :
                            from_parts(q[1], q[2]).ok}}

NoSnap == [stage |-> 0]

InitTs ==
    /\ ts \in NewTermSets
    /\ ret = "none"
    /\ snap = NoSnap
    /\ match_out = NotRun

\* snap records the TermSet before an add_include(t) and whether the very
\* next call was remove_include(t).
AddInclude ==
    /\ ret # "panic"
    /\ Len(ts.include_terms) < MaxTerms
    /\ \E t \in TermPool :
          LET r == add_include(ts, t)
          IN  /\ ts' = r.ts
              /\ ret' = r.ret
              /\ snap' = [stage |-> 1, t |-> t, ts |-> ts]
    /\ UNCHANGED match_out
    /\ UNCHANGED <<ordVars, thVars, dslVars, tcsVars, subVars, extVars>>

RemoveInclude ==
    /\ ret # "panic"
    /\ \E t \in TermPool :
          LET r == remove_include(ts, t)
          IN  /\ ts' = r.ts
              /\ ret' = r.ret
              /\ snap' = IF snap.stage = 1 /\ snap.t = t
                         THEN [snap EXCEPT !.stage = 2] ELSE NoSnap
    /\ UNCHANGED match_out
    /\ UNCHANGED <<ordVars, thVars, dslVars, tcsVars, subVars, extVars>>

AddExclude ==
    /\ ret # "panic"
    /\ Len(ts.exclude_terms) < MaxTerms
    /\ \E t \in TermPool :
          LET r == add_exclude(ts, t)
          IN  /\ ts' = r.ts
              /\ ret' = r.ret
              /\ snap' = NoSnap
    /\ UNCHANGED match_out
    /\ UNCHANGED <<ordVars, thVars, dslVars, tcsVars, subVars, extVars>>

RemoveExclude ==
    /\ ret # "panic"
    /\ \E t \in TermPool :
          LET r == remove_exclude(ts, t)
          IN  /\ ts' = r.ts
              /\ ret' = r.ret
              /\ snap' = NoSnap
    /\ UNCHANGED match_out
    /\ UNCHANGED <<ordVars, thVars, dslVars, tcsVars, subVars, extVars>>

Next == AddInclude \/ RemoveInclude \/ AddExclude \/ RemoveExclude

Init == InitTs /\ IdleOrd /\ IdleTh /\ IdleDsl /\ IdleTcs /\ IdleSub /\ IdleExt

Spec == Init /\ [][Next]_vars

\* C1: after any sequence of TermSet operations, failing calls included,
\* the compiled include (exclude) FilterSet is the one compiled from the
\* current include_terms (exclude_terms).
C1_FiltersInSync ==
    /\ FilterSet_new(ts.include_terms) = [ok |-> TRUE, inner |-> ts.includes]
    /\ FilterSet_new(ts.exclude_terms) = [ok |-> TRUE, inner |-> ts.excludes]

\* C3: add_include(t) followed by remove_include(t), for a term t that
\* compiles, leaves is_match as it was before the two calls for every
\* description, also when t was already in the include list.
C3_AddRemoveRestores ==
    (snap.stage = 2 /\ snap.t \in GoodTerms) =>
        /\ ret = "ok"
        /\ \A d \in Descs : is_match(ts, d) = is_match(snap.ts, d)

\* C23: a call of add_include or add_exclude that returns an error leaves the
\* TermSet (term lists and compiled filters) exactly as it was, and no later
\* call panics.
C23_FailedAddLeavesUnchanged ==
    [][/\ ret' = "err" => ts' = ts
       /\ ret' # "panic"]_vars

(***************************************************************************)
(* SpecMatch: one call of is_match_multi (and is_match on each of the      *)
(* descriptions) on a TermSet returned by TermSet::new.                    *)
(***************************************************************************)
IsMatchMulti ==
    /\ ~match_out.done
    /\ \E D \in SUBSET Descs :
          match_out' = [done |-> TRUE, descs |-> D,
                        multi |-> is_match_multi(ts, D),
                        single |-> [d \in D |-> is_match(ts, d)]]
    /\ UNCHANGED <<ts, ret, snap>>
    /\ UNCHANGED <<ordVars, thVars, dslVars, tcsVars, subVars, extVars>>

NextMatch == IsMatchMulti

SpecMatch == Init /\ [][NextMatch]_vars

\* Some description of D matches some filter of the FilterSet.
Hits(inner, D) == \E d \in D : \E i \in DOMAIN inner : Filter_is_match(inner[i], d)

\* C7: is_match_multi is true exactly when some description matches some
\* include filter and no description matches any exclude filter; it is
\* false for an empty include list and for no descriptions, and for a
\* single description it equals is_match.
C7_MatchMulti ==
    match_out.done =>
        /\ match_out.multi <=> (Hits(ts.includes, match_out.descs)
                                  /\ ~Hits(ts.excludes, match_out.descs))
        /\ ts.include_terms = <<>> => ~match_out.multi
        /\ match_out.descs = {} => ~match_out.multi
        /\ \A d \in match_out.descs :
              match_out.descs = {d} => (match_out.multi = match_out.single[d])

\* One description matches an include only, another an exclude only.
C7_Witness ==
    /\ match_out.done
    /\ ~match_out.multi
    /\ \E d1, d2 \in match_out.descs :
          /\ Hits(ts.includes, {d1}) /\ ~Hits(ts.excludes, {d1})
          /\ Hits(ts.excludes, {d2}) /\ ~Hits(ts.includes, {d2})

\* The description d is equal, ignoring case, to an include term of the
\* TermSet and matches one of its exclude filters.
ExactButExcluded(d) ==
    /\ \E i \in DOMAIN ts.include_terms : EqIgnoreCase(d, ts.include_terms[i])
    /\ Hits(ts.excludes, {d})

filter(self, m) == {c \in DOMAIN m : is_match_multi(self, m[c])}

\* TermCodeSet::new
TermCodeSet_new(code_set, term_set, m) ==
    [code_set |-> code_set, term_set |-> term_set, th |-> m]

\* TermSet::match_thesaurus
match_thesaurus(self, m) == TermCodeSet_new(filter(self, m), self, m)

\* Thesaurus::filter
Thesaurus_filter(m, term_set) == TermCodeSet_new(filter(term_set, m), term_set, m)

\* A variant of TermCodeSet::add_include that keeps the old code set.
tcs_add_include_keep(self, term) ==
    LET r == add_include(self.term_set, term)
    IN  [ret |-> r.ret, tcs |-> [self EXCEPT !.term_set = r.ts]]

\* TermCodeSet::add_include
tcs_add_include(self, term) ==
    LET r == add_include(self.term_set, term)
    IN  IF r.ret = "ok"
        THEN [ret |-> "ok", tcs |-> [self EXCEPT !.term_set = r.ts,
                                                 !.code_set = filter(r.ts, self.th)]]
        ELSE [ret |-> r.ret, tcs |-> [self EXCEPT !.term_set = r.ts]]

\* TermCodeSet::add_exclude
tcs_add_exclude(self, term) ==
    LET r == add_exclude(self.term_set, term)
    IN  IF r.ret = "ok"
        THEN [ret |-> "ok", tcs |-> [self EXCEPT !.term_set = r.ts,
                                                 !.code_set = filter(r.ts, self.th)]]
        ELSE [ret |-> r.ret, tcs |-> [self EXCEPT !.term_set = r.ts]]

\* The thesauri of SpecTCS: three codes, each with one of two description
\* sets, and the thesaurus of the end-to-end scenario.
MaxTcsTerms == 1
TcsCodes == {<<"A", ".", ".", ".", ".">>, <<"A", "1", ".", ".", ".">>,
             <<"A", "1", "1", ".", ".">>}
TcsDescSets == {{<<"a", "b">>}, {<<"b">>, <<"a", "b", " ", "b", "b">>}}
X1234 == <<"X", "1", "2", "3", "4">>
X1235 == <<"X", "1", "2", "3", "5">>
T_hodgkin ==
    <<"h", "o", "d", "g", "k", "i", "n">>
D_Hodgkin_lymphoma ==
    <<"H", "o", "d", "g", "k", "i", "n", " ", "l", "y", "m", "p", "h", "o", "m", "a">>
D_Hodgkin_lymphoma_unspecified ==
    <<"H", "o", "d", "g", "k", "i", "n", " ", "l", "y", "m", "p", "h", "o", "m", "a",
      ",", " ", "u", "n", "s", "p", "e", "c", "i", "f", "i", "e", "d">>
ThE2E == [c \in {X1234, X1235} |->
            IF c = X1234 THEN {D_Hodgkin_lymphoma} ELSE {D_Hodgkin_lymphoma_unspecified}]
TcsThesauri == [TcsCodes -> TcsDescSets] \cup {ThE2E}

\* The TermSets SpecTCS starts from.
TcsTermSets ==
    {from_parts(inc, exc).ts :
        <<inc, exc>> \in {q \in Lists(TermPool, MaxTcsTerms) \X Lists(TermPool, MaxTcsTerms) :
                            from_parts(q[1], q[2]).ok}}
        \cup {from_parts(<<T_hodgkin>>, <<>>).ts}

InitTcs ==
    /\ \E m \in TcsThesauri : \E t \in TcsTermSets :
          \/ tcs = match_thesaurus(t, m)
          \/ tcs = Thesaurus_filter(m, t)
    /\ tcs_ret = [op |-> "new", ret |-> "ok"]

TcsAddInclude ==
    /\ Len(tcs.term_set.include_terms) < MaxTcsTerms
    /\ \E t \in TermPool :
          LET r == tcs_add_include(tcs, t)
          IN  /\ tcs' = r.tcs
              /\ tcs_ret' = [op |-> "add_include", ret |-> r.ret]
    /\ UNCHANGED <<ordVars, thVars, dslVars, tsVars, subVars, extVars>>

TcsAddExclude ==
    /\ Len(tcs.term_set.exclude_terms) < MaxTcsTerms
    /\ \E t \in TermPool :
          LET r == tcs_add_exclude(tcs, t)
          IN  /\ tcs' = r.tcs
              /\ tcs_ret' = [op |-> "add_exclude", ret |-> r.ret]
    /\ UNCHANGED <<ordVars, thVars, dslVars, tsVars, subVars, extVars>>

NextTcs == TcsAddInclude \/ TcsAddExclude

InitSpecTCS == InitTcs /\ IdleOrd /\ IdleTh /\ IdleDsl /\ IdleTs /\ IdleSub /\ IdleExt

SpecTCS == InitSpecTCS /\ [][NextTcs]_vars

\* C2: after match_thesaurus or Thesaurus::filter and any sequence of
\* add_include / add_exclude calls, successful or failing, code_set is
\* exactly the set of thesaurus codes whose descriptions satisfy the term
\* set (some description matches an include filter, none an exclude filter).
C2_CodeSetIsMatchSet ==
    /\ tcs.code_set = {c \in DOMAIN tcs.th :
                          /\ Hits(tcs.term_set.includes, tcs.th[c])
                          /\ ~Hits(tcs.term_set.excludes, tcs.th[c])}
    /\ (/\ tcs.th = ThE2E
        /\ tcs.term_set.include_terms = <<T_hodgkin>>
        /\ tcs.term_set.exclude_terms = <<>>) => tcs.code_set = {X1234, X1235}

\* A successful add_include after which two codes are in the code set.
C2_Witness ==
    /\ tcs_ret = [op |-> "add_include", ret |-> "ok"]
    /\ Cardinality(tcs.code_set) >= 2
    /\ tcs.term_set.exclude_terms # <<>>

\* A failing add_exclude on a non-empty code set.
C2_WitnessFailing ==
    /\ tcs_ret = [op |-> "add_exclude", ret |-> "err"]
    /\ tcs.code_set # {}

(***************************************************************************)
(* Lymphoma subtypes and CodeSubtypeMap::classify.  A BTreeMap is a        *)
(* function whose domain is the set of keys present.                       *)
(***************************************************************************)
NonHodgkinSubtype ==
    {"Unspecified", "Small", "Splenic", "Lymphoplasmacytic", "ExtraMarginal",
     "Follicular", "Mantle", "DLBCL", "Mediastinal", "Burkitt", "Nasal",
     "SubcutaneousT", "Peripheral", "Angioimmunoblastic", "AlkPos", "AlkNeg"}

Unspecified == [t |-> "Unspecified", nh |-> "-"]
Hodgkin == [t |-> "Hodgkin", nh |-> "-"]
NonHodgkin(x) == [t |-> "NonHodgkin", nh |-> x]
LymphomaSubtype == {Unspecified, Hodgkin} \cup {NonHodgkin(x) : x \in NonHodgkinSubtype}

\* A variant of is_subtype_of in which everything but NonHodgkin(Unspecified)
\* itself is a subtype of NonHodgkin(Unspecified).
is_subtype_of_any_nh(self, other) ==
    IF self = [t |-> "Unspecified", nh |-> "-"] /\ other = [t |-> "Unspecified", nh |-> "-"] THEN FALSE
    ELSE IF other = [t |-> "Unspecified", nh |-> "-"] THEN TRUE
    ELSE IF self = other THEN FALSE
    ELSE other = [t |-> "NonHodgkin", nh |-> "Unspecified"]

\* LymphomaSubtype::is_subtype_of
is_subtype_of(self, other) ==
    IF self = Unspecified /\ other = Unspecified THEN FALSE
    ELSE IF other = Unspecified THEN TRUE
    ELSE IF self = NonHodgkin("Unspecified") /\ other = NonHodgkin("Unspecified") THEN FALSE
    ELSE IF self.t = "NonHodgkin" /\ other = NonHodgkin("Unspecified") THEN TRUE
    ELSE FALSE

\* BTreeMap::insert
MapInsert(m, k, v) == [x \in DOMAIN m \cup {k} |-> IF x = k THEN v ELSE m[x]]

\* The fold of classify: the events from i on added to the map.
RECURSIVE classify_fold(_, _, _, _)
classify_fold(self, evs, i, map) ==
    IF i > Len(evs) THEN map
    ELSE LET cr == evs[i].code_rubric
             next == IF cr \in DOMAIN self
                     THEN LET subtype == self[cr]
                              old == IF subtype \in DOMAIN map THEN map[subtype] ELSE {}
                          IN  MapInsert(map, subtype, old \cup {evs[i].patient_id})
                     ELSE map
         IN  classify_fold(self, evs, i + 1, next)

\* The ids of every bucket of the map whose key satisfies Keep(_).
IdsOf(map, Keep(_)) == UNION {map[k] : k \in {x \in DOMAIN map : Keep(x)}}

IsSpecificNH(subtype) == subtype.t = "NonHodgkin" /\ subtype.nh # "Unspecified"
IsNotUnspecified(subtype) == subtype # Unspecified

\* A variant of classify that leaves the Hodgkin ids in `lymphoma`.
classify_keep_hodgkin(self, evs) ==
    LET m0 == classify_fold(self, evs, 1, <<>>)
        excl_ids == IdsOf(m0, IsSpecificNH)
        nhu == NonHodgkin("Unspecified")
        m1 == MapInsert(m0, nhu, IF nhu \in DOMAIN m0 THEN m0[nhu] \ excl_ids ELSE {})
        excl_ids2 == excl_ids \cup IdsOf(m1, IsSpecificNH) \cup m1[nhu]
    IN  MapInsert(m1, Unspecified,
                  IF Unspecified \in DOMAIN m1 THEN m1[Unspecified] \ excl_ids2 ELSE {})

\* A variant of classify that empties the `non-hodgkin` bucket.
classify_empty_nhu(self, evs) ==
    LET m0 == classify_fold(self, evs, 1, <<>>)
        excl_ids == IdsOf(m0, IsSpecificNH)
        nhu == NonHodgkin("Unspecified")
        m1 == MapInsert(m0, nhu, {})
        excl_ids2 == excl_ids \cup IdsOf(m1, IsNotUnspecified)
    IN  MapInsert(m1, Unspecified,
                  IF Unspecified \in DOMAIN m1 THEN m1[Unspecified] \ excl_ids2 ELSE {})

\* CodeSubtypeMap::classify
classify(self, evs) ==
    LET m0 == classify_fold(self, evs, 1, <<>>)
        excl_ids == IdsOf(m0, IsSpecificNH)
        nhu == NonHodgkin("Unspecified")
        m1 == MapInsert(m0, nhu, IF nhu \in DOMAIN m0 THEN m0[nhu] \ excl_ids ELSE {})
        excl_ids2 == excl_ids \cup IdsOf(m1, IsNotUnspecified)
    IN  MapInsert(m1, Unspecified,
                  IF Unspecified \in DOMAIN m1 THEN m1[Unspecified] \ excl_ids2 ELSE {})

\* The (code, rubric) pairs, maps, patients and events of SpecSub.
MaxEvents == 3
CodeRubric(code, rubric) == [code |-> code, rubric |-> rubric]
CR_lymphoma == CodeRubric(<<"B", "6", "2", ".", ".">>, "lymphoma")
CR_hodgkin == CodeRubric(<<"B", "6", "1", ".", ".">>, "Hodgkin's disease")
CR_nhl == CodeRubric(<<"B", "6", "2", "7", ".">>, "Non-Hodgkin's lymphoma")
CR_small == CodeRubric(<<"B", "6", "2", "7", "0">>, "small cell lymphoma")
CR_dlbcl == CodeRubric(<<"B", "6", "2", "7", "C">>, "Diffuse large B-cell lymphoma")
CodeRubrics == {CR_lymphoma, CR_hodgkin, CR_nhl, CR_small, CR_dlbcl}

MapAll == [cr \in CodeRubrics |->
              IF cr = CR_lymphoma THEN Unspecified
              ELSE IF cr = CR_hodgkin THEN Hodgkin
              ELSE IF cr = CR_nhl THEN NonHodgkin("Unspecified")
              ELSE IF cr = CR_small THEN NonHodgkin("Small")
              ELSE NonHodgkin("DLBCL")]
MapSome == [cr \in {CR_hodgkin, CR_small} |-> MapAll[cr]]
MapBranch == [cr \in {CR_lymphoma, CR_nhl, CR_small} |-> MapAll[cr]]
CodeSubtypeMaps == {MapAll, MapSome, MapBranch}

PatientIds == {1, 2}
EventPool == {[patient_id |-> pid, code_rubric |-> cr] : pid \in PatientIds, cr \in CodeRubrics}

InitSub ==
    /\ events \in Lists(EventPool, MaxEvents)
    /\ code_subtype_map \in CodeSubtypeMaps
    /\ classified = NotRun

Classify ==
    /\ ~classified.done
    /\ classified' = [done |-> TRUE, map |-> classify(code_subtype_map, events)]
    /\ UNCHANGED <<events, code_subtype_map>>
    /\ UNCHANGED <<ordVars, thVars, dslVars, tsVars, tcsVars, extVars>>

NextSub == Classify

InitSpecSub == InitSub /\ IdleOrd /\ IdleTh /\ IdleDsl /\ IdleTs /\ IdleTcs /\ IdleExt

SpecSub == InitSpecSub /\ [][NextSub]_vars

\* C10: in the map classify returns, the patient sets of s and t are
\* disjoint whenever s is a subtype of t.
C10_SubtypeBucketsDisjoint ==
    classified.done =>
        \A s, t \in DOMAIN classified.map :
            is_subtype_of(s, t) => classified.map[s] \cap classified.map[t] = {}

\* A patient with a lymphoma, a non-Hodgkin and a specific non-Hodgkin event.
C10_Witness ==
    /\ classified.done
    /\ code_subtype_map = MapAll
    /\ \E p \in PatientIds :
          /\ \A cr \in {CR_lymphoma, CR_nhl, CR_small} :
                \E i \in DOMAIN events : events[i] = [patient_id |-> p, code_rubric |-> cr]
          /\ p \in classified.map[NonHodgkin("Small")]
          /\ p \notin classified.map[NonHodgkin("Unspecified")]
          /\ p \notin classified.map[Unspecified]

\* The patients having at least one event whose (code, rubric) pair is a key
\* of the map.
MappedPatients(self, evs) ==
    {evs[i].patient_id : i \in {j \in DOMAIN evs : evs[j].code_rubric \in DOMAIN self}}

\* C11: the union of the patient sets classify returns is exactly the set of
\* patients with at least one event whose (code, rubric) pair is in the map.
C11_UnionIsMappedPatients ==
    classified.done =>
        UNION {classified.map[k] : k \in DOMAIN classified.map}
            = MappedPatients(code_subtype_map, events)

\* One patient has only an unmapped event; the other has a lymphoma and a
\* non-Hodgkin event, is removed from `lymphoma` and stays in `non-hodgkin`.
C11_Witness ==
    /\ classified.done
    /\ \E p, q \in PatientIds :
          /\ p # q
          /\ \E i \in DOMAIN events : events[i].patient_id = q
          /\ q \notin MappedPatients(code_subtype_map, events)
          /\ LET m0 == classify_fold(code_subtype_map, events, 1, <<>>)
             IN  Unspecified \in DOMAIN m0 /\ p \in m0[Unspecified]
          /\ p \notin classified.map[Unspecified]
          /\ p \in classified.map[NonHodgkin("Unspecified")]

(***************************************************************************)
(* CodeSubtypeMap::find_multiple.  The derived Ord of LymphomaSubtype       *)
(* orders the variants by declaration and NonHodgkin(x) by the declaration  *)
(* order of NonHodgkinSubtype.                                              *)
(***************************************************************************)
NonHodgkinOrder ==
    <<"Unspecified", "Small", "Splenic", "Lymphoplasmacytic", "ExtraMarginal",
      "Follicular", "Mantle", "DLBCL", "Mediastinal", "Burkitt", "Nasal",
      "SubcutaneousT", "Peripheral", "Angioimmunoblastic", "AlkPos", "AlkNeg">>

\* The position of a subtype in the derived order.
subtype_rank(subtype) ==
    IF subtype.t = "Unspecified" THEN 0
    ELSE IF subtype.t = "Hodgkin" THEN 1
    ELSE 1 + IndexOf(NonHodgkinOrder, subtype.nh)

subtype_lt(a, b) == subtype_rank(a) < subtype_rank(b)

\* The keys of a BTreeMap<LymphomaSubtype, _> in iteration order.
RECURSIVE SubtypeKeys(_)
SubtypeKeys(S) ==
    IF S = {} THEN <<>>
    ELSE LET k == CHOOSE x \in S : \A y \in S : subtype_rank(x) <= subtype_rank(y)
         IN  <<k>> \o SubtypeKeys(S \ {k})

\* The loop of find_multiple over map.iter().cartesian_product(map.iter()):
\* step n visits the pair (keys[i], keys[j]) in row-major order.
RECURSIVE find_multiple_loop(_, _, _, _)
find_multiple_loop(map, keys, n, product_map) ==
    IF n >= Len(keys) * Len(keys) THEN product_map
    ELSE LET ty1 == keys[(n \div Len(keys)) + 1]
             ty2 == keys[(n % Len(keys)) + 1]
             intersect == map[ty1] \cap map[ty2]
             next == IF subtype_lt(ty1, ty2) /\ intersect # {}
                     THEN MapInsert(product_map, <<ty1, ty2>>, intersect)
                     ELSE product_map
         IN  find_multiple_loop(map, keys, n + 1, next)

\* A variant of find_multiple that also pairs each non-empty subtype with
\* itself.
find_multiple_with_self(map) ==
    LET r == find_multiple_loop(map, SubtypeKeys(DOMAIN map), 0, <<>>)
        self_pairs == {<<k, k>> : k \in {x \in DOMAIN map : map[x] # {}}}
    IN  [pr \in DOMAIN r \cup self_pairs |->
            IF pr \in DOMAIN r THEN r[pr] ELSE map[pr[1]]]

\* CodeSubtypeMap::find_multiple
find_multiple(map) ==
    find_multiple_loop(map, SubtypeKeys(DOMAIN map), 0, <<>>)

\* The subtype maps of SpecMult: any buckets (empty ones included, as
\* classify produces them) over a few subtypes and patients.
MaxMultPatients == 2
MultPatients == 1..MaxMultPatients
MultSubtypes == {Unspecified, Hodgkin, NonHodgkin("Unspecified"),
                 NonHodgkin("Small"), NonHodgkin("DLBCL")}
MultMaps == UNION {[K -> SUBSET MultPatients] : K \in SUBSET MultSubtypes}

InitMult ==
    /\ mult_in \in MultMaps
    /\ mult_out = NotRun

FindMultiple ==
    /\ ~mult_out.done
    /\ mult_out' = [done |-> TRUE, map |-> find_multiple(mult_in)]
    /\ UNCHANGED <<mult_in, coreVars, relVars, patVars, csVars, auxVars>>

NextMult == FindMultiple

InitSpecMult == InitMult /\ IdleCore /\ IdleRel /\ IdlePat /\ IdleCs /\ IdleAux

SpecMult == InitSpecMult /\ [][NextMult]_vars

\* C12: find_multiple has an entry (a, b) exactly for the pairs of subtypes
\* of the input with a < b and a non-empty intersection, the entry is that
\* intersection, and no key is (a, a) or has its mirror (b, a) present.
C12_FindMultiple ==
    mult_out.done =>
        LET r == mult_out.map
        IN  /\ DOMAIN r = {pr \in (DOMAIN mult_in) \X (DOMAIN mult_in) :
                               /\ subtype_lt(pr[1], pr[2])
                               /\ mult_in[pr[1]] \cap mult_in[pr[2]] # {}}
            /\ \A pr \in DOMAIN r :
                   /\ r[pr] = mult_in[pr[1]] \cap mult_in[pr[2]]
                   /\ pr[1] # pr[2]
                   /\ <<pr[2], pr[1]>> \notin DOMAIN r

\* An input with an empty bucket, a pair of disjoint non-empty buckets and
\* two entries in the result, one between two non-Hodgkin subtypes.
C12_Witness ==
    /\ mult_out.done
    /\ \E k \in DOMAIN mult_in : mult_in[k] = {}
    /\ \E a, b \in DOMAIN mult_in :
          a # b /\ mult_in[a] # {} /\ mult_in[b] # {} /\ mult_in[a] \cap mult_in[b] = {}
    /\ <<NonHodgkin("Small"), NonHodgkin("DLBCL")>> \in DOMAIN mult_out.map
    /\ Cardinality(DOMAIN mult_out.map) >= 2

(***************************************************************************)
(* LymphomaSubtype::is_subtype_of applied to every pair of subtypes.       *)
(***************************************************************************)
InitRel ==
    /\ sub_a \in LymphomaSubtype
    /\ sub_b \in LymphomaSubtype
    /\ sub_out = NotRun

IsSubtypeOf ==
    /\ ~sub_out.done
    /\ sub_out' = [done |-> TRUE,
                   ab |-> is_subtype_of(sub_a, sub_b),
                   ba |-> is_subtype_of(sub_b, sub_a)]
    /\ UNCHANGED <<sub_a, sub_b, coreVars, multVars, patVars, csVars, auxVars>>

NextRel == IsSubtypeOf

InitSpecRel == InitRel /\ IdleCore /\ IdleMult /\ IdlePat /\ IdleCs /\ IdleAux

SpecRel == InitSpecRel /\ [][NextRel]_vars

None == [some |-> FALSE]
Some(x) == [some |-> TRUE, v |-> x]

\* Patient (From<PatientRaw>): the lymphoma fields start as None.
Patient(id) ==
    [patient_id |-> id, lymphoma_diagnosis_date |-> None, lymphoma_diagnosis_subtype |-> None]

\* Patients::rebuild_index: a later row with the same id replaces the entry.
RECURSIVE rebuild_index(_, _, _)
rebuild_index(els, i, id_idx) ==
    IF i > Len(els) THEN id_idx
    ELSE rebuild_index(els, i + 1, MapInsert(id_idx, els[i].patient_id, i))

\* Patients::new
Patients_new(els) == [els |-> els, id_idx |-> rebuild_index(els, 1, <<>>)]

\* A variant of the date update that keeps the later date.
lymphoma_date_update_latest(old, date) ==
    IF old = None THEN Some(date)
    ELSE IF old.v < date THEN Some(date)
    ELSE old

\* calc_lymphoma_data, "update diagnosis date if applicable"
lymphoma_date_update(old, date) ==
    IF old = None THEN Some(date)
    ELSE IF old.v > date THEN Some(date)
    ELSE old

\* A variant of the subtype update with is_subtype_of turned round.
lymphoma_subtype_update_swapped(old_subtype, subtype) ==
    IF old_subtype # None
    THEN IF is_subtype_of(old_subtype.v, subtype) THEN Some(subtype) ELSE old_subtype
    ELSE Some(subtype)

\* calc_lymphoma_data, the update of lymphoma_diagnosis_subtype
lymphoma_subtype_update(old_subtype, subtype) ==
    IF old_subtype # None
    THEN IF is_subtype_of(subtype, old_subtype.v) THEN Some(subtype) ELSE old_subtype
    ELSE Some(subtype)

\* One iteration of the loop of calc_lymphoma_data.
calc_lymphoma_step(self, event, map) ==
    IF event.code_rubric \notin DOMAIN map THEN self
    ELSE IF event.patient_id \notin DOMAIN self.id_idx THEN self
    ELSE LET idx == self.id_idx[event.patient_id]
             patient == self.els[idx]
             updated ==
                 [patient EXCEPT
                    !.lymphoma_diagnosis_date =
                        lymphoma_date_update(patient.lymphoma_diagnosis_date, event.date),
                    !.lymphoma_diagnosis_subtype =
                        lymphoma_subtype_update(patient.lymphoma_diagnosis_subtype,
                                                map[event.code_rubric])]
         IN  [self EXCEPT !.els[idx] = updated]

\* Patients::calc_lymphoma_data: the events from i on, in order.
RECURSIVE calc_lymphoma_data(_, _, _, _)
calc_lymphoma_data(self, evs, i, map) ==
    IF i > Len(evs) THEN self
    ELSE calc_lymphoma_data(calc_lymphoma_step(self, evs[i], map), evs, i + 1, map)

\* The inputs of SpecPat: patients 1 and 2 are rows of Patients, patient 3
\* is not; CR_dlbcl is not a key of the map.
MaxPatEvents == 3
MaxDate == 2
KnownPatients == <<Patient(1), Patient(2)>>
PatMap == [cr \in CodeRubrics \ {CR_dlbcl} |-> MapAll[cr]]
DatedEvent(pid, cr, date) == [patient_id |-> pid, code_rubric |-> cr, date |-> date]
PatEventPool ==
    {DatedEvent(1, cr, d) : cr \in CodeRubrics, d \in 1..MaxDate}
        \cup {DatedEvent(2, CR_hodgkin, 1), DatedEvent(2, CR_nhl, MaxDate),
              DatedEvent(3, CR_hodgkin, 1)}

InitPat ==
    /\ pat_events \in Lists(PatEventPool, MaxPatEvents)
    /\ pat_map = PatMap
    /\ patients = [done |-> FALSE, data |-> Patients_new(KnownPatients)]

CalcLymphomaData ==
    /\ ~patients.done
    /\ patients' = [done |-> TRUE,
                    data |-> calc_lymphoma_data(patients.data, pat_events, 1, pat_map)]
    /\ UNCHANGED <<pat_events, pat_map, coreVars, relVars, multVars, csVars, auxVars>>

NextPat == CalcLymphomaData

InitSpecPat == InitPat /\ IdleCore /\ IdleRel /\ IdleMult /\ IdleCs /\ IdleAux

SpecPat == InitSpecPat /\ [][NextPat]_vars

\* The positions of the mapped events of a patient, and where a subtype is
\* first encountered among them.
MappedAt(id) ==
    {i \in DOMAIN pat_events :
        pat_events[i].patient_id = id /\ pat_events[i].code_rubric \in DOMAIN pat_map}
SubtypeAt(i) == pat_map[pat_events[i].code_rubric]
SubtypesOf(id) == {SubtypeAt(i) : i \in MappedAt(id)}
FirstAt(id, s) == CHOOSE i \in MappedAt(id) :
                      SubtypeAt(i) = s /\ \A j \in MappedAt(id) : SubtypeAt(j) = s => i <= j
Incomparable(s, t) == s # t /\ ~is_subtype_of(s, t) /\ ~is_subtype_of(t, s)

\* The assigned subtype is one of the patient's subtypes and no subtype of
\* the patient is a subtype of it (None when there is no mapped event).
MostSpecific(pt) ==
    LET a == pt.lymphoma_diagnosis_subtype
        S == SubtypesOf(pt.patient_id)
    IN  IF S = {} THEN a = None
        ELSE a.some /\ a.v \in S /\ \A s \in S : ~is_subtype_of(s, a.v)

\* C14 as stated: the assigned subtype is most specific, and of two
\* incomparable subtypes of the patient the one encountered later is not the
\* one kept.
C14_MostSpecificFirstKept ==
    patients.done =>
        \A n \in DOMAIN patients.data.els :
            LET pt == patients.data.els[n]
                id == pt.patient_id
            IN  /\ MostSpecific(pt)
                /\ \A s, t \in SubtypesOf(id) :
                       (Incomparable(s, t) /\ FirstAt(id, s) < FirstAt(id, t))
                           => pt.lymphoma_diagnosis_subtype # Some(t)

\* C14 amended: the assigned subtype is most specific, and of two
\* incomparable subtypes of the patient the one encountered later is kept
\* only if it is a subtype of a subtype encountered before both.
C14_MostSpecificRefinesHeld ==
    patients.done =>
        \A n \in DOMAIN patients.data.els :
            LET pt == patients.data.els[n]
                id == pt.patient_id
            IN  /\ MostSpecific(pt)
                /\ \A s, t \in SubtypesOf(id) :
                       (/\ Incomparable(s, t)
                        /\ FirstAt(id, s) < FirstAt(id, t)
                        /\ pt.lymphoma_diagnosis_subtype = Some(t))
                           => \E u \in SubtypesOf(id) :
                                 FirstAt(id, u) < FirstAt(id, s) /\ is_subtype_of(t, u)

\* Patient 1 has non-Hodgkin, Hodgkin and small-cell events in that order and
\* is assigned the small-cell subtype.
C14_Witness ==
    /\ patients.done
    /\ Len(pat_events) = 3
    /\ \A i \in 1..3 : pat_events[i].patient_id = 1
    /\ pat_events[1].code_rubric = CR_nhl
    /\ pat_events[2].code_rubric = CR_hodgkin
    /\ pat_events[3].code_rubric = CR_small
    /\ patients.data.els[1].lymphoma_diagnosis_subtype = Some(NonHodgkin("Small"))

\* C15: each patient's lymphoma_diagnosis_date is the minimum date of the
\* patient's mapped events, and None exactly when there is none.
C15_EarliestMappedDate ==
    patients.done =>
        \A n \in DOMAIN patients.data.els :
            LET pt == patients.data.els[n]
                D == {pat_events[i].date : i \in MappedAt(pt.patient_id)}
            IN  IF D = {} THEN pt.lymphoma_diagnosis_date = None
                ELSE /\ pt.lymphoma_diagnosis_date.some
                     /\ pt.lymphoma_diagnosis_date.v \in D
                     /\ \A d \in D : pt.lymphoma_diagnosis_date.v <= d

\* Patient 1's subtype comes from a later-dated event that is first in the
\* sequence, the date from an earlier-dated event that follows it; patient
\* 2 has no mapped event and keeps None.
C15_Witness ==
    /\ patients.done
    /\ Len(pat_events) >= 2
    /\ pat_events[1] = DatedEvent(1, CR_small, 2)
    /\ pat_events[2] = DatedEvent(1, CR_lymphoma, 1)
    /\ patients.data.els[1].lymphoma_diagnosis_date = Some(1)
    /\ patients.data.els[1].lymphoma_diagnosis_subtype = Some(NonHodgkin("Small"))
    /\ patients.data.els[2].lymphoma_diagnosis_date = None

(***************************************************************************)
(* CodeSet and CodeSetMatcher (read2/codeset.rs).  A CodeSet is the set of  *)
(* its codes; a file is the sequence of its characters.                     *)
(***************************************************************************)
\* CodeSet::contains
CodeSet_contains(self, code) == code \in self

\* AhoCorasick::is_match: some pattern occurs somewhere in the haystack.
AhoCorasick_is_match(patterns, haystack) ==
    \E n \in DOMAIN patterns :
        \E off \in 0..(Len(haystack) - Len(patterns[n])) :
            SubSeq(haystack, off + 1, off + Len(patterns[n])) = patterns[n]

\* A code without its trailing '.' characters.
RECURSIVE TrimDots(_)
TrimDots(code) ==
    IF code # <<>> /\ code[Len(code)] = "." THEN TrimDots(SubSeq(code, 1, Len(code) - 1))
    ELSE code

\* A variant of CodeSetMatcher::new whose patterns are the codes without
\* their trailing dots.
CodeSetMatcher_new_trimmed(code_set) ==
    LET codes == SortedKeys(code_set)
    IN  [code_set |-> code_set, matcher |-> [n \in DOMAIN codes |-> TrimDots(codes[n])]]

\* CodeSetMatcher::new: the patterns are the five bytes of each code.
CodeSetMatcher_new(code_set) ==
    [code_set |-> code_set, matcher |-> SortedKeys(code_set)]

\* CodeSet::into_matcher
into_matcher(self) == CodeSetMatcher_new(self)

\* CodeSetMatcher::contains
CodeSetMatcher_contains(self, code) == AhoCorasick_is_match(self.matcher, code)

\* A variant of the entry update that keeps the earlier date.
entry_update_min(entry, date) == IF entry > date THEN date ELSE entry

\* earliest_code: `if *entry < evt.date { *entry = evt.date; }`
entry_update(entry, date) == IF entry < date THEN date ELSE entry

\* CodeSetMatcher::earliest_code: the events from i on, in order.
RECURSIVE earliest_code_loop(_, _, _, _)
earliest_code_loop(self, evs, i, map) ==
    IF i > Len(evs) THEN map
    ELSE LET evt == evs[i]
             next == IF CodeSetMatcher_contains(self, evt.read_code)
                     THEN LET entry == IF evt.patient_id \in DOMAIN map
                                       THEN map[evt.patient_id] ELSE evt.date
                          IN  MapInsert(map, evt.patient_id, entry_update(entry, evt.date))
                     ELSE map
         IN  earliest_code_loop(self, evs, i + 1, next)

earliest_code(self, evs) == earliest_code_loop(self, evs, 1, <<>>)

\* fmt::Display for ReadCode: the five characters of the code.
Display(code) == code

\* CodeSet::save: `writeln!(file, "{}", code)` for each code in set order.
RECURSIVE save_from(_, _)
save_from(codes, i) ==
    IF i > Len(codes) THEN <<>>
    ELSE Display(codes[i]) \o <<"\n">> \o save_from(codes, i + 1)

CodeSet_save(self) == save_from(SortedKeys(self), 1)

\* The records csv::Reader reads from a file whose fields need no quoting:
\* one record per non-empty line.
RECURSIVE csv_lines(_, _, _)
csv_lines(file, pos, cur) ==
    IF pos > Len(file) THEN IF cur = <<>> THEN <<>> ELSE <<cur>>
    ELSE IF file[pos] = "\n"
         THEN (IF cur = <<>> THEN <<>> ELSE <<cur>>) \o csv_lines(file, pos + 1, <<>>)
         ELSE csv_lines(file, pos + 1, Append(cur, file[pos]))

\* csv::Reader::from_reader(..).into_deserialize(): has_headers is on by
\* default, so the first record is the header row and is not yielded.
csv_into_deserialize(file) ==
    LET records == csv_lines(file, 1, <<>>)
    IN  IF records = <<>> THEN <<>> ELSE Tail(records)

\* CodeSet::load: every yielded record deserialized by ReadCode::from_str and
\* collected into a set, or the first error.
CodeSet_load(file) ==
    LET records == csv_into_deserialize(file)
        parsed == [n \in DOMAIN records |-> from_bytes(records[n])]
    IN  IF \E n \in DOMAIN parsed : ~parsed[n].ok THEN [ok |-> FALSE]
        ELSE [ok |-> TRUE, codes |-> {parsed[n].code : n \in DOMAIN parsed}]

\* The inputs of SpecCs: code sets over a parent, its child, its grandchild
\* and an unrelated code; events of two patients.
MaxCsEvents == 2
B62 == <<"B", "6", "2", ".", ".">>
B627 == <<"B", "6", "2", "7", ".">>
B6270 == <<"B", "6", "2", "7", "0">>
B61 == <<"B", "6", "1", ".", ".">>
CsCodes == {B62, B627, B6270, B61}
CodeEvent(pid, code, date) == [patient_id |-> pid, read_code |-> code, date |-> date]
CsEventPool == {CodeEvent(pid, c, d) : pid \in PatientIds, c \in {B62, B6270}, d \in 1..MaxDate}

InitCs ==
    /\ cs_set \in SUBSET CsCodes
    /\ cs_events \in Lists(CsEventPool, MaxCsEvents)
    /\ cs_out = NotRun

Contains ==
    /\ ~cs_out.done
    /\ \E c \in CsCodes :
          cs_out' = [done |-> TRUE, op |-> "contains", code |-> c,
                     matcher |-> CodeSetMatcher_contains(into_matcher(cs_set), c),
                     set |-> CodeSet_contains(cs_set, c)]
    /\ UNCHANGED <<cs_set, cs_events, coreVars, relVars, multVars, patVars, auxVars>>

EarliestCode ==
    /\ ~cs_out.done
    /\ cs_out' = [done |-> TRUE, op |-> "earliest_code",
                  map |-> earliest_code(into_matcher(cs_set), cs_events)]
    /\ UNCHANGED <<cs_set, cs_events, coreVars, relVars, multVars, patVars, auxVars>>

SaveLoad ==
    /\ ~cs_out.done
    /\ LET file == CodeSet_save(cs_set)
       IN  cs_out' = [done |-> TRUE, op |-> "save_load", file |-> file,
                      loaded |-> CodeSet_load(file)]
    /\ UNCHANGED <<cs_set, cs_events, coreVars, relVars, multVars, patVars, auxVars>>

NextCs == Contains \/ EarliestCode \/ SaveLoad

InitSpecCs == InitCs /\ IdleCore /\ IdleRel /\ IdleMult /\ IdlePat /\ IdleAux

SpecCs == InitSpecCs /\ [][NextCs]_vars

\* C16: earliest_code's keys are exactly the patients with an event whose
\* code is in the code set, and each value is the latest date among that
\* patient's matching events.
C16_EarliestCodeIsLatest ==
    (cs_out.done /\ cs_out.op = "earliest_code") =>
        LET Matching(pid) == {i \in DOMAIN cs_events :
                                 /\ cs_events[i].patient_id = pid
                                 /\ cs_events[i].read_code \in cs_set}
        IN  /\ DOMAIN cs_out.map = {pid \in PatientIds : Matching(pid) # {}}
            /\ \A pid \in DOMAIN cs_out.map :
                   /\ \E i \in Matching(pid) : cs_events[i].date = cs_out.map[pid]
                   /\ \A i \in Matching(pid) : cs_events[i].date <= cs_out.map[pid]

\* A patient with two matching events, the earlier date first, whose value
\* is the later date.
C16_Witness ==
    /\ cs_out.done /\ cs_out.op = "earliest_code"
    /\ cs_set = {B62}
    /\ cs_events = <<CodeEvent(1, B62, 1), CodeEvent(1, B62, 2)>>
    /\ cs_out.map[1] = 2

\* C17: the matcher's contains agrees with the set's contains.
C17_MatcherIsMembership ==
    (cs_out.done /\ cs_out.op = "contains") =>
        /\ cs_out.matcher = cs_out.set
        /\ cs_out.set = (cs_out.code \in cs_set)

\* The set holds the parent and the grandchild of the code asked for, not
\* the code itself, and the matcher says no.
C17_Witness ==
    /\ cs_out.done /\ cs_out.op = "contains"
    /\ cs_set = {B62, B6270}
    /\ cs_out.code = B627
    /\ ~cs_out.matcher

\* C20: loading the file CodeSet::save wrote yields the saved set.
C20_SaveLoadRoundTrip ==
    (cs_out.done /\ cs_out.op = "save_load") =>
        cs_out.loaded.ok /\ cs_out.loaded.codes = cs_set

(***************************************************************************)
(* TermCodeSet::check and descendants_not_included_or_excluded, on a        *)
(* TermCodeSet whose code_set is any set (TermCodeSet::new and load_direct  *)
(* take the code set as given).                                             *)
(***************************************************************************)
\* TermCodeSet::is_match
tcs_is_match(self, desc) == is_match_multi(self.term_set, desc)

\* TermCodeSet::descendants_not_included_or_excluded
descendants_not_included_or_excluded(self) ==
    UNION {LET pairs == iter_descendants(self.th, p)
           IN  {pairs[n][1] : n \in {k \in DOMAIN pairs :
                    ~\E d \in pairs[k][2] : is_match_inc_or_ex(self.term_set, d)}}
           : p \in self.code_set}

\* A variant of check that reports codes absent from the thesaurus as extra.
check_none_is_extra(self) ==
    [extra |-> {code \in self.code_set :
                   \/ ~th_get(self.th, code).some
                   \/ ~tcs_is_match(self, th_get(self.th, code).v)},
     missing_codes |-> {},
     missing |-> {code \in DOMAIN self.th :
                     tcs_is_match(self, self.th[code]) /\ code \notin self.code_set},
     unmatched_descendants |-> descendants_not_included_or_excluded(self)]

\* TermCodeSet::check
check(self) ==
    [extra |-> {code \in self.code_set :
                   /\ th_get(self.th, code).some
                   /\ ~tcs_is_match(self, th_get(self.th, code).v)},
     missing_codes |-> {code \in self.code_set : ~th_get(self.th, code).some},
     missing |-> {code \in DOMAIN self.th :
                     tcs_is_match(self, self.th[code]) /\ code \notin self.code_set},
     unmatched_descendants |-> descendants_not_included_or_excluded(self)]

\* The inputs of SpecCheck: a thesaurus over any of three nested codes, any
\* code set over the same three codes, and term sets of good terms.
CheckDescs == [c \in TcsCodes |->
                 IF c = <<"A", ".", ".", ".", ".">> THEN {<<"a", "b">>}
                 ELSE IF c = <<"A", "1", ".", ".", ".">> THEN {<<"b">>, <<"a", "b", " ", "b", "b">>}
                 ELSE {<<"a">>}]
CheckThesauri == {[c \in K |-> CheckDescs[c]] : K \in SUBSET TcsCodes}
CheckTermSets ==
    {from_parts(q[1], q[2]).ts :
        q \in Lists(GoodTerms, MaxTcsTerms) \X Lists(GoodTerms, MaxTcsTerms)}

InitCheck ==
    /\ \E code_set \in SUBSET TcsCodes : \E t \in CheckTermSets : \E m \in CheckThesauri :
          tcs = TermCodeSet_new(code_set, t, m)
    /\ tcs_ret = [op |-> "new", ret |-> "ok"]

Check ==
    /\ tcs_ret.op = "new"
    /\ tcs_ret' = [op |-> "check", ret |-> "ok", report |-> check(tcs)]
    /\ UNCHANGED <<tcs, ordVars, thVars, dslVars, tsVars, subVars, extVars>>

DescendantsNotIncludedOrExcluded ==
    /\ tcs_ret.op = "new"
    /\ tcs_ret' = [op |-> "descendants", ret |-> "ok",
                   codes |-> descendants_not_included_or_excluded(tcs)]
    /\ UNCHANGED <<tcs, ordVars, thVars, dslVars, tsVars, subVars, extVars>>

NextCheck == Check \/ DescendantsNotIncludedOrExcluded

InitSpecCheck == InitCheck /\ IdleOrd /\ IdleTh /\ IdleDsl /\ IdleTs /\ IdleSub /\ IdleExt

SpecCheck == InitSpecCheck /\ [][NextCheck]_vars

\* The thesaurus codes whose descriptions satisfy the term set.
Satisfying(self) ==
    {c \in DOMAIN self.th :
        /\ Hits(self.term_set.includes, self.th[c])
        /\ ~Hits(self.term_set.excludes, self.th[c])}

\* C18: check reports as extra the codes of code_set in the thesaurus that
\* do not satisfy the term set, as missing the satisfying thesaurus codes
\* outside code_set, as missing_codes the codes of code_set absent from the
\* thesaurus; the three are pairwise disjoint, and all empty exactly when
\* code_set is the set of satisfying thesaurus codes.
C18_CheckReport ==
    tcs_ret.op = "check" =>
        LET r == tcs_ret.report
        IN  /\ r.extra = (tcs.code_set \cap DOMAIN tcs.th) \ Satisfying(tcs)
            /\ r.missing = Satisfying(tcs) \ tcs.code_set
            /\ r.missing_codes = tcs.code_set \ DOMAIN tcs.th
            /\ r.extra \cap r.missing = {}
            /\ r.extra \cap r.missing_codes = {}
            /\ r.missing \cap r.missing_codes = {}
            /\ (r.extra = {} /\ r.missing = {} /\ r.missing_codes = {})
                   <=> tcs.code_set = Satisfying(tcs)

\* A check whose three sets are all non-empty.
C18_Witness ==
    /\ tcs_ret.op = "check"
    /\ tcs_ret.report.extra # {}
    /\ tcs_ret.report.missing # {}
    /\ tcs_ret.report.missing_codes # {}

\* C19: descendants_not_included_or_excluded returns exactly the thesaurus
\* codes that are a descendant of some code of code_set and none of whose
\* descriptions matches an include or an exclude filter.
C19_UnmatchedDescendants ==
    tcs_ret.op = "descendants" =>
        tcs_ret.codes =
            {d \in DOMAIN tcs.th :
                /\ \E p \in tcs.code_set : is_child_of(d, p)
                /\ ~Hits(tcs.term_set.includes, tcs.th[d])
                /\ ~Hits(tcs.term_set.excludes, tcs.th[d])}

\* ---------------------------------------------------------------------------
\* SpecParse: ReadCode::from_bytes on byte strings of every length up to
\* MaxParseLen, followed by `to_string` on the code it returns.
\* ---------------------------------------------------------------------------

MaxParseLen == 7
\* a letter, the dot, a digit, and a byte no Read code may hold
ParseChars == {"a", ".", "7", "-"}
ParseInputs == UNION {[1..n -> ParseChars] : n \in 0..MaxParseLen}

InitParse ==
    /\ parse_in \in ParseInputs
    /\ parse_out = NotRun

\* `ReadCode::from_bytes(v)` and, on Ok, `code.to_string()`.
Parse ==
    /\ ~parse_out.done
    /\ LET r == from_bytes(parse_in)
       IN  parse_out' = IF r.ok
                        THEN [done |-> TRUE, ok |-> TRUE, text |-> Display(r.code)]
                        ELSE [done |-> TRUE, ok |-> FALSE]
    /\ UNCHANGED <<parse_in, coreVars, relVars, multVars, patVars, csVars,
                   cloneVars, timeVars, idxVars, ltcVars, repVars, rankVars>>

InitSpecParse == InitParse /\ IdleCore /\ IdleRel /\ IdleMult /\ IdlePat /\ IdleCs
                 /\ IdleClone /\ IdleTime /\ IdleIdx /\ IdleLtc /\ IdleRep /\ IdleRank
NextParse == Parse
SpecParse == InitSpecParse /\ [][NextParse]_vars

ReadChars == Range(Digits) \cup Range(Uppers) \cup Range(Lowers) \cup {"."}

\* C21: from_bytes succeeds exactly on 5 bytes of [A-Za-z0-9.] and on 7 bytes
\* made of 5 such bytes followed by 2 ASCII digits; on success the string form
\* of the code is the first 5 bytes of the input, so a valid 5-byte input is
\* given back unchanged.
C21_ParseContract ==
    parse_out.done =>
        LET n == Len(parse_in)
            five == \A i \in 1..5 : parse_in[i] \in ReadChars
        IN  /\ parse_out.ok <=>
                   \/ n = 5 /\ five
                   \/ n = 7 /\ five /\ \A i \in 6..7 : parse_in[i] \in Range(Digits)
            /\ parse_out.ok => parse_out.text = SubSeq(parse_in, 1, 5)
            /\ parse_out.ok /\ n = 5 => parse_out.text = parse_in

\* A 7-byte input with a synonym suffix was accepted and its first 5 bytes
\* came back as the code's string form.
C21_Witness ==
    /\ parse_out.done
    /\ Len(parse_in) = 7
    /\ parse_out.ok
    /\ parse_out.text = <<"a", "7", ".", ".", ".">>

\* ---------------------------------------------------------------------------
\* SpecClone: CodeSet values sharing their BTreeSet through an Arc, and a
\* TermCodeSet built from a TermSet and a Thesaurus.  `arcs` is the heap of
\* Arc<BTreeSet<ReadCode>> allocations (strong = 0: free); `code_sets[h]` is
\* the allocation the h-th live CodeSet points to.
\* ---------------------------------------------------------------------------

MaxHandles == 3
ArcAddrs == 1..(MaxHandles + 1)
FreeArc == [strong |-> 0, data |-> {}]

\* Arc::new: a fresh allocation with strong count 1.
Arc_new(heap, data) ==
    LET a == CHOOSE x \in ArcAddrs :
                 /\ heap[x].strong = 0
                 /\ \A y \in ArcAddrs : heap[y].strong = 0 => x <= y
    IN  [heap |-> [heap EXCEPT ![a] = [strong |-> 1, data |-> data]], at |-> a]

\* Arc::clone (what the derived `Clone` of CodeSet does)
Arc_clone(heap, a) == [heap EXCEPT ![a].strong = @ + 1]

\* Drop of an Arc
Arc_drop(heap, a) ==
    IF heap[a].strong = 1 THEN [heap EXCEPT ![a] = FreeArc]
    ELSE [heap EXCEPT ![a].strong = @ - 1]

\* A make_mut that hands out the shared allocation itself.
make_mut_in_place(heap, a) == [heap |-> heap, at |-> a]

\* Arc::make_mut, as called by CodeSet::update: the allocation itself when it
\* is not shared, else a fresh allocation holding a copy of the set.
make_mut(heap, a) ==
    IF heap[a].strong = 1 THEN [heap |-> heap, at |-> a]
    ELSE Arc_new(Arc_drop(heap, a), heap[a].data)

\* CodeSet::insert
CodeSet_insert(heap, a, code) ==
    LET m == make_mut(heap, a)
    IN  [heap |-> [m.heap EXCEPT ![m.at].data = @ \cup {code}], at |-> m.at]

\* CodeSet::remove
CodeSet_remove(heap, a, code) ==
    LET m == make_mut(heap, a)
    IN  [heap |-> [m.heap EXCEPT ![m.at].data = @ \ {code}], at |-> m.at]

ClCodes == {<<"A", ".", ".", ".", ".">>}
ClTh == [c \in ClCodes |-> {<<"a", "b">>}]
ClTerms == {P_ab, BadTerm}
ClTermSets == {from_parts(inc, <<>>).ts : inc \in {<<>>, <<P_ab>>}}

Contents(h) == arcs[code_sets[h]].data

InitClone ==
    /\ \E s \in {{}, ClCodes} :
          arcs = [a \in ArcAddrs |-> IF a = 1 THEN [strong |-> 1, data |-> s] ELSE FreeArc]
    /\ code_sets = <<1>>
    /\ \E t \in ClTermSets : cl_src = [term_set |-> t, th |-> [strong |-> 1, codes |-> ClTh]]
    /\ cl_tcs = [some |-> FALSE]
    /\ cl_last = [op |-> "new"]

ClFrame == <<coreVars, relVars, multVars, patVars, csVars,
             parseVars, timeVars, idxVars, ltcVars, repVars, rankVars>>

\* `let c = code_sets[h].clone();`
CodeSetClone ==
    /\ Len(code_sets) < MaxHandles
    /\ \E h \in DOMAIN code_sets :
          /\ arcs' = Arc_clone(arcs, code_sets[h])
          /\ code_sets' = Append(code_sets, code_sets[h])
          /\ cl_last' = [op |-> "clone", h |-> Len(code_sets) + 1]
    /\ UNCHANGED <<cl_src, cl_tcs, ClFrame>>

\* `code_sets[h].insert(code)`
CodeSetInsert ==
    \E h \in DOMAIN code_sets : \E c \in ClCodes :
        LET r == CodeSet_insert(arcs, code_sets[h], c)
        IN  /\ arcs' = r.heap
            /\ code_sets' = [code_sets EXCEPT ![h] = r.at]
            /\ cl_last' = [op |-> "insert", h |-> h,
                           shared |-> arcs[code_sets[h]].strong > 1]
            /\ UNCHANGED <<cl_src, cl_tcs, ClFrame>>

\* `code_sets[h].remove(code)`
CodeSetRemove ==
    \E h \in DOMAIN code_sets : \E c \in ClCodes :
        LET r == CodeSet_remove(arcs, code_sets[h], c)
        IN  /\ arcs' = r.heap
            /\ code_sets' = [code_sets EXCEPT ![h] = r.at]
            /\ cl_last' = [op |-> "remove", h |-> h,
                           shared |-> arcs[code_sets[h]].strong > 1]
            /\ UNCHANGED <<cl_src, cl_tcs, ClFrame>>

\* `let tcs = term_set.match_thesaurus(th.clone());`: the TermCodeSet gets a
\* clone of the TermSet, the Thesaurus handle and a newly collected CodeSet.
ClMatchThesaurus ==
    /\ ~cl_tcs.some
    /\ Len(code_sets) < MaxHandles
    /\ LET v == match_thesaurus(cl_src.term_set, cl_src.th.codes)
           r == Arc_new(arcs, v.code_set)
       IN  /\ arcs' = r.heap
           /\ code_sets' = Append(code_sets, r.at)
           /\ cl_tcs' = [some |-> TRUE, code_set |-> Len(code_sets) + 1,
                         term_set |-> v.term_set]
           /\ cl_src' = [cl_src EXCEPT !.th.strong = @ + 1]
           /\ cl_last' = [op |-> "match_thesaurus", h |-> Len(code_sets) + 1]
    /\ UNCHANGED ClFrame

\* The TermCodeSet as a value: its CodeSet read through the Arc.
ClTcsValue ==
    TermCodeSet_new(Contents(cl_tcs.code_set), cl_tcs.term_set, cl_src.th.codes)

\* The state after a TermCodeSet edit returning r: on Ok `self.code_set` is
\* assigned a newly collected CodeSet and the old one is dropped.
ClTcsEdit(op, r) ==
    /\ cl_tcs' = [cl_tcs EXCEPT !.term_set = r.tcs.term_set]
    /\ IF r.ret = "ok"
       THEN LET n == Arc_new(Arc_drop(arcs, code_sets[cl_tcs.code_set]), r.tcs.code_set)
            IN  /\ arcs' = n.heap
                /\ code_sets' = [code_sets EXCEPT ![cl_tcs.code_set] = n.at]
       ELSE UNCHANGED <<arcs, code_sets>>
    /\ cl_last' = [op |-> op, h |-> cl_tcs.code_set, ret |-> r.ret,
                   shared |-> arcs[code_sets[cl_tcs.code_set]].strong > 1]
    /\ UNCHANGED <<cl_src, ClFrame>>

\* `tcs.add_include(term)`
ClTcsAddInclude ==
    /\ cl_tcs.some
    /\ Len(cl_tcs.term_set.include_terms) < MaxTcsTerms
    /\ \E t \in ClTerms : ClTcsEdit("add_include", tcs_add_include(ClTcsValue, t))

\* `tcs.add_exclude(term)`
ClTcsAddExclude ==
    /\ cl_tcs.some
    /\ Len(cl_tcs.term_set.exclude_terms) < MaxTcsTerms
    /\ \E t \in ClTerms : ClTcsEdit("add_exclude", tcs_add_exclude(ClTcsValue, t))

NextClone ==
    \/ CodeSetClone
    \/ CodeSetInsert
    \/ CodeSetRemove
    \/ ClMatchThesaurus
    \/ ClTcsAddInclude
    \/ ClTcsAddExclude

InitSpecClone == InitClone /\ IdleCore /\ IdleRel /\ IdleMult /\ IdlePat /\ IdleCs
                 /\ IdleParse /\ IdleTime /\ IdleIdx /\ IdleLtc /\ IdleRep /\ IdleRank
SpecClone == InitSpecClone /\ [][NextClone]_vars

\* C22: an insert or remove on one CodeSet leaves the contents of every
\* other CodeSet as they were, and an add_include or add_exclude on a
\* TermCodeSet leaves the TermSet it was built from, the Thesaurus and every
\* CodeSet other than its own code_set as they were.
C22_ClonesIndependent ==
    [][/\ cl_last'.op \in {"insert", "remove"} =>
            \A h \in DOMAIN code_sets :
                h # cl_last'.h => arcs'[code_sets'[h]].data = arcs[code_sets[h]].data
       /\ cl_last'.op \in {"add_include", "add_exclude"} =>
            /\ cl_src'.term_set = cl_src.term_set
            /\ cl_src'.th.codes = cl_src.th.codes
            /\ \A h \in DOMAIN code_sets :
                  h # cl_last'.h => arcs'[code_sets'[h]].data = arcs[code_sets[h]].data]_vars

\* An insert on a CodeSet that shared its allocation with a clone: the two
\* now differ.
C22_Witness ==
    /\ cl_last.op = "insert"
    /\ cl_last.shared
    /\ \E h \in DOMAIN code_sets : Contents(h) # Contents(cl_last.h)

\* ---------------------------------------------------------------------------
\* SpecTime: a TermSet with its created_on and last_updated fields, edited
\* while the clock (`Utc::now()`) advances.
\* ---------------------------------------------------------------------------

MaxNow == 2

\* TermSet::new at clock value t: both timestamps are `Utc::now()`.
TermSet_new_at(include_terms, exclude_terms, t) ==
    LET r == from_parts(include_terms, exclude_terms)
    IN  IF r.ok
        THEN [ok |-> TRUE, ts |-> r.ts, created_on |-> t, last_updated |-> t]
        ELSE [ok |-> FALSE]

\* TermSet::created_on
created_on(self) == self.created_on

\* TermSet::last_updated
last_updated(self) == self.last_updated

InitTime ==
    /\ now = 0
    /\ \E inc \in Lists(GoodTerms, 1) :
          LET r == TermSet_new_at(inc, <<>>, 0)
          IN  tm = [ts |-> r.ts, created_on |-> r.created_on,
                    last_updated |-> r.last_updated, ret |-> "none"]

TimeFrame == <<coreVars, relVars, multVars, patVars, csVars,
               parseVars, cloneVars, idxVars, ltcVars, repVars, rankVars>>

\* Time passes between two calls.
Tick ==
    /\ now < MaxNow
    /\ now' = now + 1
    /\ UNCHANGED <<tm, TimeFrame>>

\* The state after an edit method returning r: the methods assign the term
\* lists and the compiled filters, and no other field.
TmEdit(r) ==
    /\ tm' = [tm EXCEPT !.ts = r.ts, !.ret = r.ret]
    /\ UNCHANGED <<now, TimeFrame>>

TmAddInclude ==
    /\ tm.ret # "panic"
    /\ Len(tm.ts.include_terms) < MaxTerms
    /\ \E t \in TermPool : TmEdit(add_include(tm.ts, t))

TmRemoveInclude ==
    /\ tm.ret # "panic"
    /\ \E t \in TermPool : TmEdit(remove_include(tm.ts, t))

TmAddExclude ==
    /\ tm.ret # "panic"
    /\ Len(tm.ts.exclude_terms) < MaxTerms
    /\ \E t \in TermPool : TmEdit(add_exclude(tm.ts, t))

TmRemoveExclude ==
    /\ tm.ret # "panic"
    /\ \E t \in TermPool : TmEdit(remove_exclude(tm.ts, t))

NextTime == Tick \/ TmAddInclude \/ TmRemoveInclude \/ TmAddExclude \/ TmRemoveExclude

InitSpecTime == InitTime /\ IdleCore /\ IdleRel /\ IdleMult /\ IdlePat /\ IdleCs
                /\ IdleParse /\ IdleClone /\ IdleIdx /\ IdleLtc /\ IdleRep /\ IdleRank
SpecTime == InitSpecTime /\ [][NextTime]_vars

\* C26: after every successful add_include, remove_include, add_exclude or
\* remove_exclude that changes a term list, last_updated() is not earlier
\* than the moment of that call, and created_on() keeps its value.
C26_LastUpdatedFollowsEdits ==
    [][(/\ tm'.ret = "ok"
        /\ \/ tm'.ts.include_terms # tm.ts.include_terms
           \/ tm'.ts.exclude_terms # tm.ts.exclude_terms)
           => /\ last_updated(tm') >= now
              /\ created_on(tm') = created_on(tm)]_vars

\* ---------------------------------------------------------------------------
\* SpecIdx: a Patients and an Events collection, each with its elements and
\* its id index, under filter and retain.  Positions are counted from 1.
\* ---------------------------------------------------------------------------

MaxIdxEvents == 3

\* Patients::find_by_id
find_by_id(self, id) ==
    IF id \notin DOMAIN self.id_idx THEN None
    ELSE IF self.id_idx[id] > Len(self.els) THEN None
    ELSE Some(self.els[self.id_idx[id]])

\* The elements a predicate keeps: the predicates are "patient_id is in K".
KeepIds(els, K) == SelectSeq(els, LAMBDA e : e.patient_id \in K)

\* Patients::filter
Patients_filter(self, K) == Patients_new(KeepIds(self.els, K))

\* Patients::retain
Patients_retain(self, K) == [self EXCEPT !.els = KeepIds(self.els, K)]

\* Events::rebuild_id_map
RECURSIVE rebuild_id_map(_, _, _)
rebuild_id_map(els, i, id_idx) ==
    IF i > Len(els) THEN id_idx
    ELSE LET pid == els[i].patient_id
             old == IF pid \in DOMAIN id_idx THEN id_idx[pid] ELSE <<>>
         IN  rebuild_id_map(els, i + 1, MapInsert(id_idx, pid, Append(old, i)))

\* Events::new
Events_new(els) == [els |-> els, id_idx |-> rebuild_id_map(els, 1, <<>>)]

\* Events::filter
Events_filter(self, K) == Events_new(KeepIds(self.els, K))

\* Events::retain
Events_retain(self, K) == [self EXCEPT !.els = KeepIds(self.els, K)]

\* Events::events_for_patient, consumed to its end: the events, or the panic
\* of `.expect("inconsistent event patient_id index")`.
events_for_patient(self, patient_id) ==
    IF patient_id \notin DOMAIN self.id_idx THEN [panic |-> FALSE, evts |-> <<>>]
    ELSE LET idxs == self.id_idx[patient_id]
         IN  IF \E k \in DOMAIN idxs : idxs[k] > Len(self.els)
             THEN [panic |-> TRUE, evts |-> <<>>]
             ELSE [panic |-> FALSE, evts |-> [k \in DOMAIN idxs |-> self.els[idxs[k]]]]

IdxIds == {1, 2, 3}
IdxPatientLists ==
    {s \in Lists(IdxIds, 3) : \A i, j \in DOMAIN s : i # j => s[i] # s[j]}
IdxEventPool == {CodeEvent(1, B62, 1), CodeEvent(1, B62, 2), CodeEvent(2, B62, 1)}

InitIdx ==
    /\ \E s \in IdxPatientLists :
          idx_patients = Patients_new([i \in DOMAIN s |-> Patient(s[i])])
    /\ \E s \in Lists(IdxEventPool, MaxIdxEvents) : idx_events = Events_new(s)
    /\ idx_out = [op |-> "new"]

IdxFrame == <<coreVars, relVars, multVars, patVars, csVars,
              parseVars, cloneVars, timeVars, ltcVars, repVars, rankVars>>

\* `patients = patients.filter(f)`
PatientsFilter ==
    /\ \E K \in SUBSET IdxIds :
          /\ idx_patients' = Patients_filter(idx_patients, K)
          /\ idx_out' = [op |-> "Patients::filter"]
    /\ UNCHANGED <<idx_events, IdxFrame>>

\* `patients.retain(f)`
PatientsRetain ==
    /\ \E K \in SUBSET IdxIds :
          /\ idx_patients' = Patients_retain(idx_patients, K)
          /\ idx_out' = [op |-> "Patients::retain"]
    /\ UNCHANGED <<idx_events, IdxFrame>>

\* `events = events.filter(f)`
EventsFilter ==
    /\ \E K \in SUBSET IdxIds :
          /\ idx_events' = Events_filter(idx_events, K)
          /\ idx_out' = [op |-> "Events::filter"]
    /\ UNCHANGED <<idx_patients, IdxFrame>>

\* `events.retain(f)`
EventsRetain ==
    /\ \E K \in SUBSET IdxIds :
          /\ idx_events' = Events_retain(idx_events, K)
          /\ idx_out' = [op |-> "Events::retain"]
    /\ UNCHANGED <<idx_patients, IdxFrame>>

NextIndex == PatientsFilter \/ PatientsRetain \/ EventsFilter \/ EventsRetain

InitSpecIdx == InitIdx /\ IdleCore /\ IdleRel /\ IdleMult /\ IdlePat /\ IdleCs
               /\ IdleParse /\ IdleClone /\ IdleTime /\ IdleLtc /\ IdleRep /\ IdleRank
SpecIdx == InitSpecIdx /\ [][NextIndex]_vars

\* C27: after any sequence of new, filter and retain, find_by_id(id) returns
\* the stored patient with that id exactly when there is one, and
\* events_for_patient(id) yields exactly the stored events of that patient,
\* in order, without panicking.
C27_IndexAgrees ==
    \A id \in IdxIds :
        /\ LET at == {i \in DOMAIN idx_patients.els : idx_patients.els[i].patient_id = id}
           IN  find_by_id(idx_patients, id) =
                   IF at = {} THEN None ELSE Some(idx_patients.els[CHOOSE i \in at : TRUE])
        /\ LET r == events_for_patient(idx_events, id)
           IN  /\ ~r.panic
               /\ r.evts = KeepIds(idx_events.els, {id})

\* ---------------------------------------------------------------------------
\* SpecLtc: the composite long-term-condition tests of Conditions, each
\* called with an iterator over one patient's events and a date.  Dates are
\* whole years.  An iterator is the sequence of the events it has yet to
\* yield.
\* ---------------------------------------------------------------------------

MaxLtcEvents == 4

\* date_y: add years to a date
date_y(date, years) == date + years

\* Iterator::any(p) on `&mut events`, p holding of the events of S: whether
\* an event of S is left, and the iterator after the call, which has
\* consumed everything up to and including the first such event.
iter_any(it, S) ==
    IF \E i \in DOMAIN it : it[i] \in S
    THEN LET k == CHOOSE i \in DOMAIN it :
                      it[i] \in S /\ \A j \in 1..(i - 1) : it[j] \notin S
         IN  [found |-> TRUE, rest |-> SubSeq(it, k + 1, Len(it))]
    ELSE [found |-> FALSE, rest |-> <<>>]

\* `events.filter(p).count()`, p holding of the events of S
filter_count(it, S) == Cardinality({i \in DOMAIN it : it[i] \in S})

\* The events a closure of the tests accepts: on or before the date (within
\* the year before it when `recent`) and with a code of one of the matchers.
Accepts(all, matchers, date, recent) ==
    {e \in all :
        /\ \E m \in matchers : CodeSetMatcher_contains(m, e.read_code)
        /\ e.date <= date
        /\ recent => e.date > date_y(date, -1)}

\* Conditions::test_anx_dep
test_anx_dep(self, evts, date) ==
    LET all == Range(evts)
        med_code == iter_any(evts, Accepts(all, {self.anx140, self.dep152}, date, TRUE))
        prod_code == filter_count(med_code.rest,
                                  Accepts(all, {self.anx141, self.dep153}, date, TRUE)) >= 4
    IN  med_code.found \/ prod_code

\* Conditions::test_ast
test_ast(self, evts, date) ==
    LET all == Range(evts)
        diag_code == iter_any(evts, Accepts(all, {self.ast142}, date, FALSE))
        prod_code == iter_any(diag_code.rest, Accepts(all, {self.ast127}, date, TRUE))
    IN  diag_code.found /\ prod_code.found

\* Conditions::test_epi
test_epi(self, evts, date) ==
    LET all == Range(evts)
        medcode == iter_any(evts, Accepts(all, {self.epi155}, date, FALSE))
        prodcode == iter_any(medcode.rest, Accepts(all, {self.epi156}, date, TRUE))
    IN  medcode.found /\ prodcode.found

\* Conditions::test_ibs
test_ibs(self, evts, date) ==
    LET all == Range(evts)
        medcode == iter_any(evts, Accepts(all, {self.ibs161}, date, FALSE))
        prodcode == filter_count(medcode.rest,
                                 Accepts(all, {self.ibs162}, date, TRUE)) >= 4
    IN  medcode.found \/ prodcode

\* Conditions::test_scz
test_scz(self, evts, date) ==
    LET all == Range(evts)
        medcode == iter_any(evts, Accepts(all, {self.scz175}, date, FALSE))
        prodcode == iter_any(medcode.rest, Accepts(all, {self.scz176}, date, FALSE))
    IN  medcode.found \/ prodcode.found

\* The code sets of the conditions: one diagnosis code, one product code.
LtcConditions ==
    [anx140 |-> into_matcher({B62}), dep152 |-> into_matcher({B627}),
     anx141 |-> into_matcher({B61}), dep153 |-> into_matcher({B6270}),
     ast142 |-> into_matcher({B62}), ast127 |-> into_matcher({B61}),
     epi155 |-> into_matcher({B62}), epi156 |-> into_matcher({B61}),
     ibs161 |-> into_matcher({B62}), ibs162 |-> into_matcher({B61}),
     scz175 |-> into_matcher({B62}), scz176 |-> into_matcher({B61})]

LtcEventPool == {CodeEvent(1, B62, 1), CodeEvent(1, B61, 1), CodeEvent(1, B61, 0)}

InitLtc ==
    /\ ltc_events \in Lists(LtcEventPool, MaxLtcEvents)
    /\ ltc_date \in {1, 2}
    /\ ltc_out = NotRun

\* The five tests on `events_for_patient(id)` and the date.
LtcTest ==
    /\ ~ltc_out.done
    /\ ltc_out' = [done |-> TRUE,
                   anx_dep |-> test_anx_dep(LtcConditions, ltc_events, ltc_date),
                   ast |-> test_ast(LtcConditions, ltc_events, ltc_date),
                   epi |-> test_epi(LtcConditions, ltc_events, ltc_date),
                   ibs |-> test_ibs(LtcConditions, ltc_events, ltc_date),
                   scz |-> test_scz(LtcConditions, ltc_events, ltc_date)]
    /\ UNCHANGED <<ltc_events, ltc_date, coreVars, relVars, multVars, patVars, csVars,
                   parseVars, cloneVars, timeVars, idxVars, repVars, rankVars>>

NextLtc == LtcTest

InitSpecLtc == InitLtc /\ IdleCore /\ IdleRel /\ IdleMult /\ IdlePat /\ IdleCs
               /\ IdleParse /\ IdleClone /\ IdleTime /\ IdleIdx /\ IdleRep /\ IdleRank
SpecLtc == InitSpecLtc /\ [][NextLtc]_vars

\* The number of the patient's events with code c dated on or before the
\* date (within the year before it when `recent`).
LtcCount(c, recent) ==
    Cardinality({i \in DOMAIN ltc_events :
                    /\ ltc_events[i].read_code = c
                    /\ ltc_events[i].date <= ltc_date
                    /\ recent => ltc_events[i].date > ltc_date - 1})

\* C28: each composite test is the boolean combination of its two sub-rules,
\* each evaluated over all of the patient's events (so the order of the
\* events does not matter, and an OR test is true when its product-code
\* sub-rule alone is satisfied).
C28_CompositeTests ==
    ltc_out.done =>
        /\ ltc_out.anx_dep <=> (LtcCount(B62, TRUE) >= 1 \/ LtcCount(B61, TRUE) >= 4)
        /\ ltc_out.ast <=> (LtcCount(B62, FALSE) >= 1 /\ LtcCount(B61, TRUE) >= 1)
        /\ ltc_out.epi <=> (LtcCount(B62, FALSE) >= 1 /\ LtcCount(B61, TRUE) >= 1)
        /\ ltc_out.ibs <=> (LtcCount(B62, FALSE) >= 1 \/ LtcCount(B61, TRUE) >= 4)
        /\ ltc_out.scz <=> (LtcCount(B62, FALSE) >= 1 \/ LtcCount(B61, FALSE) >= 1)

\* ---------------------------------------------------------------------------
\* SpecRank: the percentiles of codeset_freq_stats.  A proportion is given
\* in quarters (1, 2, 3 for 0.25, 0.5, 0.75), for which the floating-point
\* product `proportion * (n + 1)` is exact; rates are small integers.
\* ---------------------------------------------------------------------------

MaxCohort == 4

\* percentile_to_rank: the index, or the panic of a failed assert!.
percentile_to_rank(quarters, n) ==
    IF ~(0 <= quarters /\ quarters <= 4) THEN [panic |-> TRUE]
    ELSE LET rank == (quarters * (n + 1)) \div 4
         IN  IF rank >= 1 /\ rank <= n THEN [panic |-> FALSE, idx |-> rank - 1]
             ELSE [panic |-> TRUE]

\* `patient_rates.sort_by(sort_f64)`
RECURSIVE sort_by(_)
sort_by(v) ==
    IF v = <<>> THEN <<>>
    ELSE LET k == CHOOSE i \in DOMAIN v : \A j \in DOMAIN v : v[i] <= v[j]
         IN  <<v[k]>> \o sort_by([i \in 1..(Len(v) - 1) |-> IF i < k THEN v[i] ELSE v[i + 1]])

\* codeset_freq_stats from the collected patient_rates on: the three rate
\* percentiles, or a panic.
codeset_freq_stats(patient_rates) ==
    LET n == Len(patient_rates)
        sorted == sort_by(patient_rates)
        r25 == percentile_to_rank(1, n)
        r50 == percentile_to_rank(2, n)
        r75 == percentile_to_rank(3, n)
    IN  IF n = 0 THEN [panic |-> FALSE, num_people |-> 0]
        ELSE IF r25.panic \/ r50.panic \/ r75.panic THEN [panic |-> TRUE, num_people |-> n]
        ELSE [panic |-> FALSE, num_people |-> n,
              rate_25_percentile |-> sorted[r25.idx + 1],
              rate_50_percentile |-> sorted[r50.idx + 1],
              rate_75_percentile |-> sorted[r75.idx + 1]]

InitRank ==
    /\ rank_in \in Lists({0, 1, 2}, MaxCohort)
    /\ rank_out = NotRun

CodesetFreqStats ==
    /\ ~rank_out.done
    /\ rank_out' = [done |-> TRUE, stats |-> codeset_freq_stats(rank_in)]
    /\ UNCHANGED <<rank_in, coreVars, relVars, multVars, patVars, csVars,
                   parseVars, cloneVars, timeVars, idxVars, ltcVars, repVars>>

NextRank == CodesetFreqStats

InitSpecRank == InitRank /\ IdleCore /\ IdleRel /\ IdleMult /\ IdlePat /\ IdleCs
                /\ IdleParse /\ IdleClone /\ IdleTime /\ IdleIdx /\ IdleLtc /\ IdleRep
SpecRank == InitSpecRank /\ [][NextRank]_vars

\* C29: for every non-empty cohort the assertion of percentile_to_rank holds
\* in each of the calls for 0.25, 0.5 and 0.75, so the statistics are
\* produced.
C29_RankAssertionHolds ==
    (rank_out.done /\ Len(rank_in) >= 1) => ~rank_out.stats.panic

\* ---------------------------------------------------------------------------
\* SpecRep: Conditions::report for one condition row (every row is filled by
\* the same macro).  Dates are whole years.
\* ---------------------------------------------------------------------------

MaxRepPatients == 2

\* date_of_extract, as a year
date_of_extract == 10

\* Conditions::test_alc (and every test that is a single `events.any(..)`)
test_alc(self, evts, date) ==
    \E i \in DOMAIN evts :
        evts[i].date <= date /\ CodeSetMatcher_contains(self.alc138, evts[i].read_code)

\* The macro ltc_test! for the row alc
ltc_test(self, row, evts, date) ==
    LET extract_date == date_of_extract
        date5 == date_y(date, 5)
        date10 == date_y(date, 10)
    IN  [y0 |-> row.y0 + (IF test_alc(self, evts, date) THEN 1 ELSE 0),
         y5 |-> row.y5 + (IF date5 <= extract_date /\ test_alc(self, evts, date5)
                          THEN 1 ELSE 0),
         y10 |-> row.y10 + (IF date10 <= extract_date /\ test_alc(self, evts, date10)
                            THEN 1 ELSE 0)]

\* The loop of report over the patients from i on.
RECURSIVE report_loop(_, _, _, _, _, _)
report_loop(self, pats, i, evs, diagnosis_dates, row) ==
    IF i > Len(pats) THEN row
    ELSE LET pat == pats[i]
             evts == events_for_patient(evs, pat.patient_id).evts
         IN  IF pat.patient_id \notin DOMAIN diagnosis_dates
             THEN report_loop(self, pats, i + 1, evs, diagnosis_dates, row)
             ELSE report_loop(self, pats, i + 1, evs, diagnosis_dates,
                              ltc_test(self, row, evts, diagnosis_dates[pat.patient_id]))

\* Conditions::report
report(self, pats, evs, diagnosis_dates) ==
    LET extract_date == date_of_extract
        y5 == date_y(extract_date, -5)
        total5 == Cardinality({p \in DOMAIN diagnosis_dates : diagnosis_dates[p] < y5})
        y10 == date_y(extract_date, -10)
        total10 == Cardinality({p \in DOMAIN diagnosis_dates : diagnosis_dates[p] < y10})
    IN  [totals |-> <<Len(pats.els), total5, total10>>,
         alc |-> report_loop(self, pats.els, 1, evs, diagnosis_dates,
                             [y0 |-> 0, y5 |-> 0, y10 |-> 0])]

RepConditions == [alc138 |-> into_matcher({B62})]
RepIds == 1..MaxRepPatients
RepPatientLists ==
    {s \in Lists(RepIds, MaxRepPatients) : \A i, j \in DOMAIN s : i # j => s[i] # s[j]}
\* diagnosed more than 10 years, exactly 10, between 5 and 10, exactly 5 and
\* less than 5 years before the extract
RepDates == {-1, 0, 4, 5, 6}
RepEventPool == {CodeEvent(p, B62, -1) : p \in RepIds}

InitRep ==
    /\ \E s \in RepPatientLists : \E ev \in Lists(RepEventPool, 2) :
       \E ids \in SUBSET RepIds : \E dd \in [ids -> RepDates] :
          rep_in = [patients |-> Patients_new([i \in DOMAIN s |-> Patient(s[i])]),
                    events |-> Events_new(ev),
                    diagnosis_dates |-> dd]
    /\ rep_out = NotRun

Report ==
    /\ ~rep_out.done
    /\ rep_out' = [done |-> TRUE,
                   report |-> report(RepConditions, rep_in.patients, rep_in.events,
                                     rep_in.diagnosis_dates)]
    /\ UNCHANGED <<rep_in, coreVars, relVars, multVars, patVars, csVars,
                   parseVars, cloneVars, timeVars, idxVars, ltcVars, rankVars>>

NextRep == Report

InitSpecRep == InitRep /\ IdleCore /\ IdleRel /\ IdleMult /\ IdlePat /\ IdleCs
               /\ IdleParse /\ IdleClone /\ IdleTime /\ IdleIdx /\ IdleLtc /\ IdleRank
SpecRep == InitSpecRep /\ [][NextRep]_vars

\* C30: when diagnosis_dates has entries only for patients of the list, the
\* row's counts are bounded by the totals: y0 <= totals[0], y5 <= totals[1]
\* and y10 <= totals[2] (the totals are indexed from 1 here).
C30_NumeratorsWithinTotals ==
    (/\ rep_out.done
     /\ DOMAIN rep_in.diagnosis_dates \subseteq
            {rep_in.patients.els[i].patient_id : i \in DOMAIN rep_in.patients.els})
        => /\ rep_out.report.alc.y0 <= rep_out.report.totals[1]
           /\ rep_out.report.alc.y5 <= rep_out.report.totals[2]
           /\ rep_out.report.alc.y10 <= rep_out.report.totals[3]

====
